---- MODULE Spec2Model ----
(***************************************************************************)
(* Model of the heterogeneous memory pool of code_saturne                  *)
(* (src/src/base/cs_base_mempool.cxx, class MemoryPool).                   *)
(*                                                                         *)
(* Addresses are the integers 1..NPtr, 0 is nullptr; host and device       *)
(* addresses share one (unified) address space.  A size_t value is kept as *)
(* its residue modulo 2^64, written with a representative close to zero:   *)
(* a negative representative -k denotes 2^64 - k, so that the code's       *)
(* unsigned arithmetic is integer arithmetic on representatives.           *)
(***************************************************************************)
EXTENDS Integers, Sequences, FiniteSets, TLC

(***************************************************************************)
(* Bounds of the model.                                                    *)
(***************************************************************************)
NPtr == 3
MaxCalls == 3
MaxCycle == 7
\* Calls of other modes counted per retired block.
MaxOther == 2
\* Allocations of one shape after which SpecEvict stops.
MaxPhys == 2
NThreads == 2

(***************************************************************************)
(* Program constants.                                                      *)
(***************************************************************************)
nullptr == 0
TTL_MAX == 500

CS_ALLOC_HOST == 0
CS_ALLOC_HOST_DEVICE == 1
CS_ALLOC_HOST_DEVICE_PINNED == 2
CS_ALLOC_HOST_DEVICE_SHARED == 3
CS_ALLOC_DEVICE == 4

cs_alloc_mode_t ==
  { CS_ALLOC_HOST, CS_ALLOC_HOST_DEVICE, CS_ALLOC_HOST_DEVICE_PINNED,
    CS_ALLOC_HOST_DEVICE_SHARED, CS_ALLOC_DEVICE }

Ptr == 1..NPtr
Threads == 1..NThreads

\* The largest size_t value, 2^64 - 1, as a residue.
SIZE_MAX == 0 - 1

\* Sizes requested by callers.
Sizes == { SIZE_MAX, 0, 64, 65 }

\* Unsigned comparison of two size_t residues.
ULe(a, b) ==
  IF (a >= 0) = (b >= 0) THEN a <= b ELSE a >= 0

(***************************************************************************)
(* cs_mem_block_t, and the block returned when a pointer is unknown.       *)
(***************************************************************************)
cs_mem_block_t(h, d, s, m, t) ==
  [host_ptr |-> h, device_ptr |-> d, size |-> s, mode |-> m, ttl |-> t]

me_default == cs_mem_block_t(nullptr, nullptr, 0, CS_ALLOC_HOST, 0)

\* The pointer a caller uses to designate a block.
Handle(me) == IF me.host_ptr # nullptr THEN me.host_ptr ELSE me.device_ptr

\* The non-null pointers a block carries.
PtrsOf(me) == { me.host_ptr, me.device_ptr } \ { nullptr }

VARIABLES
  allocated_blocks_,  \* std::unordered_map<void*, cs_mem_block_t>
  free_blocks_,       \* std::unordered_map<cs_alloc_mode_t, std::vector<..>>
  mutex_,             \* 0 when free, else the thread holding it
  heap,               \* addresses physically allocated (host or device)
  brk,                \* highest address the backend has handed out so far
  bft_map,            \* the allocator's own bookkeeping: address -> block
  legacy,             \* addresses allocated outside the pool, held by callers
  owner,              \* address -> thread the block is checked out to, or 0
  pc,                 \* thread -> the pool method it is executing
  frame,              \* thread -> the arguments of that method
  last,               \* the last completed call: arguments and result
  batch,              \* acquire/release/acquire pattern the last calls form
  tick,               \* flips at every completed call
  idle,               \* retired pointer -> acquire calls seen since its release
  shapes,             \* per (rounded size, mode): allocations made, evicted or not
  aliased,            \* an acquire has returned a pointer still checked out
  proc,               \* the process: the singleton's statics, teardown
  nbh,                \* the arrays of the extended-neighborhood routines
  ncalls              \* number of calls made

poolvars == << allocated_blocks_, free_blocks_, heap, brk, bft_map >>
ghostvars == << legacy, owner, last, batch, tick, idle, shapes, aliased,
               ncalls >>
envvars == << proc, nbh >>
ctlvars == << mutex_, pc, frame, proc, nbh >>
vars == << allocated_blocks_, free_blocks_, mutex_, heap, brk, bft_map, legacy,
           owner, pc, frame, last, batch, tick, idle, shapes, aliased, ncalls,
           proc, nbh >>

(***************************************************************************)
(* Maps and vectors.                                                       *)
(***************************************************************************)
EmptyMap == [k \in {} |-> me_default]

\* map[key] = value
Put(map, key, value) ==
  [k \in DOMAIN map \cup {key} |-> IF k = key THEN value ELSE map[k]]

\* map.erase(key)
Erase(map, key) == [k \in DOMAIN map \ {key} |-> map[k]]

\* vector.erase(position i)
RemoveAt(list, i) ==
  [j \in 1..(Len(list) - 1) |-> IF j < i THEN list[j] ELSE list[j + 1]]

SeqRange(list) == { list[i] : i \in 1..Len(list) }

(***************************************************************************)
(* The allocator's own bookkeeping (bft_mem), known here by its calls.     *)
(***************************************************************************)
\* bft_mem_get_block_info_try(ptr): the block recorded for ptr, as a host
\* or as a device pointer, else the default block (no pointer at all).
bft_mem_get_block_info_try(ptr) ==
  IF ptr \in DOMAIN bft_map THEN bft_map[ptr]
  ELSE IF ptr # nullptr /\ \E k \in DOMAIN bft_map : bft_map[k].device_ptr = ptr
    THEN bft_map[CHOOSE k \in DOMAIN bft_map : bft_map[k].device_ptr = ptr]
    ELSE me_default

\* bft_mem_update_block_info(.., nullptr, &me): record a new block.
bft_insert(map, me) == Put(map, Handle(me), me)

\* bft_mem_update_block_info(.., &me, nullptr): forget a block.
bft_remove(map, me) == Erase(map, Handle(me))

(***************************************************************************)
(* The block allocator: allocate_new_block, free_block, allocate_device.   *)
(***************************************************************************)
\* size_t adjusted_size = ((size + 63) / 64) * 64;
AdjustedSize(size) == ((size + 63) \div 64) * 64

\* Variant of allocate_new_block that fills the host pointer only.
AllocateHostOnly(size, mode, a) == cs_mem_block_t(a, nullptr, size, mode, 0)

\* Variant of allocate_new_block that records every block as a host block.
AllocateAsHost(size, mode, a) ==
  cs_mem_block_t(a, nullptr, size, CS_ALLOC_HOST, 0)

\* The block built by allocate_new_block when the backend returns address a.
allocate_new_block(size, mode, a) ==
  IF mode < CS_ALLOC_HOST_DEVICE_PINNED
    THEN cs_mem_block_t(a, nullptr, size, mode, 0)
  ELSE IF mode = CS_ALLOC_HOST_DEVICE_PINNED
    THEN cs_mem_block_t(a, nullptr, size, mode, 0)
  ELSE IF mode = CS_ALLOC_HOST_DEVICE_SHARED
    THEN cs_mem_block_t(a, a, size, mode, 0)
  ELSE cs_mem_block_t(nullptr, a, size, mode, 0)

\* The addresses free_block releases for block me.
free_block(me) ==
  ( (IF me.mode < CS_ALLOC_HOST_DEVICE_PINNED THEN { me.host_ptr }
     ELSE IF me.host_ptr # nullptr THEN { me.host_ptr } ELSE {})
    \cup
    (IF me.device_ptr # nullptr /\ me.device_ptr # me.host_ptr
       THEN { me.device_ptr } ELSE {}) ) \ { nullptr }

\* Variant of allocate_device that attaches nothing.
NoMirror(me_old, a) == me_old

\* allocate_device: the block with a device mirror at address a attached.
allocate_device(me_old, a) ==
  IF me_old.mode = CS_ALLOC_HOST_DEVICE
     \/ me_old.mode = CS_ALLOC_HOST_DEVICE_PINNED
    THEN [me_old EXCEPT !.device_ptr = a]
    ELSE me_old

(***************************************************************************)
(* MemoryPool::allocate, step by step.                                     *)
(***************************************************************************)
\* Lines 73-83: every entry of the scanned list with its ttl incremented.
Aged(list) == [i \in 1..Len(list) |-> [list[i] EXCEPT !.ttl = @ + 1]]

\* Variants of the expiry test: one scan too late, and at the first scan.
ExpiredLate(me) == me.ttl > TTL_MAX

ExpiredAtOnce(me) == me.ttl >= 1

IsExpired(me) == me.ttl >= TTL_MAX

\* The entries the scan passes to free_block and erases, in list order.
Evicted(list) == SelectSeq(Aged(list), IsExpired)

NotExpired(me) == ~ IsExpired(me)

\* Variant of the scan that releases the expired entries and leaves them in
\* the list.
KeepExpired(list) == Aged(list)

\* The list left by the scan.
Scanned(list) == SelectSeq(Aged(list), NotExpired)

\* Variant of the search that never matches.
NoMatch(list, adjusted_size) == 0

\* Variant of the search that takes the first entry that is large enough.
FirstFit(list, adjusted_size) ==
  IF \E i \in 1..Len(list) : list[i].size >= adjusted_size
    THEN CHOOSE i \in 1..Len(list) :
           /\ list[i].size >= adjusted_size
           /\ \A j \in 1..(i - 1) : list[j].size < adjusted_size
    ELSE 0

\* Lines 85-95: position of the first entry whose size is adjusted_size, or 0.
FirstMatch(list, adjusted_size) ==
  IF \E i \in 1..Len(list) : list[i].size = adjusted_size
    THEN CHOOSE i \in 1..Len(list) :
           /\ list[i].size = adjusted_size
           /\ \A j \in 1..(i - 1) : list[j].size # adjusted_size
    ELSE 0

\* Variant of the reuse that leaves the matched entry in the list.
KeepMatch(list, i) == list

\* The list after the matched entry is taken out (free_blocks.erase(it2)).
TakeMatch(list, i) == RemoveAt(list, i)

\* Addresses released, and bookkeeping left, by the evictions of one scan.
FreedBy(list) == UNION { free_block(list[i]) : i \in 1..Len(list) }

BftAfterEvict(map, list) ==
  [k \in DOMAIN map \ { Handle(list[i]) : i \in 1..Len(list) } |-> map[k]]

(***************************************************************************)
(* Record of the calls made, kept for stating the properties.              *)
(***************************************************************************)
Event(op, size, mode, ptr, blk, fresh, found, evicted) ==
  [op |-> op, size |-> size, mode |-> mode, ptr |-> ptr, blk |-> blk,
   fresh |-> fresh, found |-> found, evicted |-> evicted]

NoEvent ==
  Event("none", 0, CS_ALLOC_HOST, nullptr, me_default, FALSE, FALSE, <<>>)

\* The two pointers of a block.
PP(me) == << me.host_ptr, me.device_ptr >>

HandleOf(pp) == IF pp[1] # nullptr THEN pp[1] ELSE pp[2]

\* The last n elements of a sequence, as a set.
LastN(list, n) == { list[i] : i \in (Len(list) - n + 1)..Len(list) }

(***************************************************************************)
(* batch follows the pattern "n acquires of one size and mode, the release *)
(* of these n blocks, n more acquires of that size and mode":              *)
(*   run    the blocks returned by the current run of consecutive           *)
(*          acquires of one shape (size is the rounded size),              *)
(*   phase  "acq" in the first acquires, "rel" in the releases, "re" in    *)
(*          the second acquires,                                           *)
(*   rel    the blocks released, got the blocks acquired again, nre their  *)
(*          number, fresh whether one of them was newly allocated,         *)
(*   clean  whether, when the releases began, the free-list of the mode    *)
(*          held no entry of the rounded size.                             *)
(***************************************************************************)
NoBatch ==
  [phase |-> "none", size |-> 0, mode |-> CS_ALLOC_HOST, run |-> <<>>,
   rel |-> {}, got |-> {}, nre |-> 0, fresh |-> FALSE, clean |-> FALSE]

BatchComplete == batch.phase = "re" /\ batch.nre = Cardinality(batch.rel)

NextBatch(ev) ==
  IF ev.op = "allocate"
    THEN LET rsize == ev.blk.size
             same == batch.size = rsize /\ batch.mode = ev.mode
             run1 == IF last.op = "allocate" /\ same
                       THEN Append(batch.run, PP(ev.blk))
                       ELSE << PP(ev.blk) >>
         IN IF /\ batch.phase = "rel"
               /\ same
               /\ Cardinality(batch.rel) <= Len(batch.run)
               /\ batch.rel = LastN(batch.run, Cardinality(batch.rel))
              THEN [batch EXCEPT !.phase = "re", !.run = run1,
                                 !.got = { PP(ev.blk) }, !.nre = 1,
                                 !.fresh = ev.fresh]
            ELSE IF batch.phase = "re" /\ same /\ ~ BatchComplete
              THEN [batch EXCEPT !.run = run1,
                                 !.got = @ \cup { PP(ev.blk) },
                                 !.nre = @ + 1,
                                 !.fresh = @ \/ ev.fresh]
              ELSE [NoBatch EXCEPT !.phase = "acq", !.size = rsize,
                                   !.mode = ev.mode, !.run = run1]
  ELSE IF ev.op = "deallocate" /\ ev.ptr # nullptr
          /\ \E i \in 1..Len(batch.run) : HandleOf(batch.run[i]) = ev.ptr
    THEN LET pp == batch.run[CHOOSE i \in 1..Len(batch.run) :
                                HandleOf(batch.run[i]) = ev.ptr]
         IN IF last.op = "allocate"
              THEN [batch EXCEPT
                      !.phase = "rel", !.rel = { pp }, !.got = {}, !.nre = 0,
                      !.fresh = FALSE,
                      !.clean =
                         \A i \in 1..Len(free_blocks_[batch.mode]) :
                            free_blocks_[batch.mode][i].size # batch.size]
            ELSE IF batch.phase = "rel" /\ pp \notin batch.rel
              THEN [batch EXCEPT !.rel = @ \cup { pp }]
              ELSE NoBatch
    ELSE NoBatch

\* The pointers that designate the entries of a list, of all the lists.
HandlesIn(list) == { Handle(list[i]) : i \in 1..Len(list) }

Retired_(fb) == UNION { HandlesIn(fb[m]) : m \in cs_alloc_mode_t }

(***************************************************************************)
(* idle[p], for a retired pointer p: own counts the acquire calls of the   *)
(* mode of p's free-list made since p was released, other the acquire      *)
(* calls of the other modes (counted up to MaxOther).                      *)
(***************************************************************************)
NextIdle(ev, fb) ==
  [p \in Retired_(fb) |->
     IF p \notin DOMAIN idle THEN [own |-> 0, other |-> 0]
     ELSE IF ev.op # "allocate" THEN idle[p]
     ELSE IF p \in HandlesIn(free_blocks_[ev.mode])
       THEN [idle[p] EXCEPT !.own = IF @ < TTL_MAX THEN @ + 1 ELSE @]
       ELSE [idle[p] EXCEPT !.other = IF @ < MaxOther THEN @ + 1 ELSE @]]

ShapeOf(me) == << me.size, me.mode >>

\* shapes.phys[sh]: physical allocations made for shape sh (counted up to
\* MaxPhys); shapes.evicted: the shapes of which a block has been evicted.
NextShapes(ev) ==
  IF ev.op # "allocate" THEN shapes
  ELSE [phys |->
          IF ev.fresh
            THEN LET sh == ShapeOf(ev.blk)
                     n == IF sh \in DOMAIN shapes.phys
                            THEN shapes.phys[sh] ELSE 0
                 IN [k \in DOMAIN shapes.phys \cup {sh} |->
                       IF k = sh THEN (IF n < MaxPhys THEN n + 1 ELSE n)
                                 ELSE shapes.phys[k]]
            ELSE shapes.phys,
        evicted |->
          shapes.evicted
            \cup { ShapeOf(ev.evicted[i]) : i \in 1..Len(ev.evicted) }]

\* A completed call: the ghost record of it.  The batch recognizer follows
\* the first MaxCalls + MaxCycle calls of a run; ncalls counts up to there.
Record(ev) ==
  /\ last' = ev
  /\ batch' = IF ncalls < MaxCalls + MaxCycle THEN NextBatch(ev) ELSE NoBatch
  /\ tick' = ~ tick
  /\ idle' = NextIdle(ev, free_blocks_')
  /\ shapes' = NextShapes(ev)
  /\ ncalls' = IF ncalls < MaxCalls + MaxCycle THEN ncalls + 1 ELSE ncalls

\* The caller t receives block me.
CheckOut(t, me) ==
  /\ aliased' = (aliased \/ \E p \in PtrsOf(me) : owner[p] # 0)
  /\ owner' = [p \in Ptr |-> IF p \in PtrsOf(me) THEN t ELSE owner[p]]
  /\ legacy' = legacy \ PtrsOf(me)

\* The caller gives up pointer ptr, which designated block me.
CheckIn(ptr, me) ==
  /\ owner' = [p \in Ptr |->
                 IF p = ptr \/ p \in PtrsOf(me) THEN 0 ELSE owner[p]]
  /\ legacy' = legacy \ ({ptr} \cup PtrsOf(me))
  /\ UNCHANGED aliased

(***************************************************************************)
(* The backend hands out an address that is not allocated: one it has      *)
(* handed out before and that was released since, or the next address      *)
(* never used so far (addresses never used are interchangeable).           *)
(***************************************************************************)
Fresh(h) == { a \in Ptr \ h : a <= brk + 1 }

Max(a, b) == IF a >= b THEN a ELSE b

(***************************************************************************)
(* The bodies of the public methods of MemoryPool.                         *)
(***************************************************************************)
allocate(t, size, mode, file_name) ==
  LET adjusted_size == AdjustedSize(size)
      evicted == Evicted(free_blocks_[mode])
      free_blocks == Scanned(free_blocks_[mode])
      heap1 == heap \ FreedBy(evicted)
      bft1 == BftAfterEvict(bft_map, evicted)
      it2 == FirstMatch(free_blocks, adjusted_size)
  IN IF it2 # 0
       THEN LET me == free_blocks[it2]
            IN /\ free_blocks_' =
                    [free_blocks_ EXCEPT ![mode] = TakeMatch(free_blocks, it2)]
               /\ allocated_blocks_' = Put(allocated_blocks_, me.host_ptr, me)
               /\ heap' = heap1
               /\ brk' = brk
               /\ bft_map' = bft1
               /\ CheckOut(t, me)
               /\ Record(Event("allocate", size, mode, nullptr, me, FALSE,
                               TRUE, evicted))
       ELSE \E a \in Fresh(heap1) :
              LET me == allocate_new_block(adjusted_size, mode, a)
              IN /\ free_blocks_' = [free_blocks_ EXCEPT ![mode] = free_blocks]
                 /\ allocated_blocks_' =
                      Put(allocated_blocks_, me.host_ptr, me)
                 /\ heap' = heap1 \cup {a}
                 /\ brk' = Max(brk, a)
                 /\ bft_map' = IF file_name THEN bft_insert(bft1, me) ELSE bft1
                 /\ CheckOut(t, me)
                 /\ Record(Event("allocate", size, mode, nullptr, me, TRUE,
                                 FALSE, evicted))

\* Variants of deallocate: ttl kept, null pointer not tested, block dropped.
NotRetired(me) == me

NeverNull(ptr) == FALSE

DropBlock(list, me) == list

\* Lines 135-136 and 140-141: the block as it is pushed on its free-list.
Retired(me) == [me EXCEPT !.ttl = 0]

\* Line 126: if (ptr == nullptr) return;
IsNullArg(ptr) == ptr = nullptr

\* Line 136 and 141: free_blocks_[me.mode].push_back(me)
PushBack(list, me) == Append(list, me)

\* Variant of the recovery that recovers nothing.
NotRecovered(ptr) == me_default

\* Line 139: cs_mem_block_t me = bft_mem_get_block_info_try(ptr);
Recovered(ptr) == bft_mem_get_block_info_try(ptr)

deallocate(t, ptr) ==
  IF IsNullArg(ptr)
    THEN /\ UNCHANGED << poolvars, owner, legacy, aliased >>
         /\ Record(Event("deallocate", 0, CS_ALLOC_HOST, ptr, me_default,
                         FALSE, FALSE, <<>>))
    ELSE LET found == ptr \in DOMAIN allocated_blocks_
             me == Retired(IF found THEN allocated_blocks_[ptr]
                                    ELSE Recovered(ptr))
         IN /\ allocated_blocks_' =
                 IF found THEN Erase(allocated_blocks_, ptr)
                          ELSE allocated_blocks_
            /\ free_blocks_' =
                 [free_blocks_ EXCEPT ![me.mode] = PushBack(@, me)]
            /\ UNCHANGED << heap, brk, bft_map >>
            /\ CheckIn(ptr, me)
            /\ Record(Event("deallocate", 0, CS_ALLOC_HOST, ptr, me, FALSE,
                            found, <<>>))

\* Variant of the test of line 113 that takes every answer for a block.
AlwaysFound(me) == TRUE

\* Line 113: if (me.host_ptr != nullptr || me.device_ptr != nullptr)
IsFound(me) == me.host_ptr # nullptr \/ me.device_ptr # nullptr

get_block_info(t, ptr) ==
  LET found == ptr \in DOMAIN allocated_blocks_
      me == IF found THEN allocated_blocks_[ptr]
                     ELSE bft_mem_get_block_info_try(ptr)
  IN /\ allocated_blocks_' =
          IF ~ found /\ IsFound(me)
            THEN Put(allocated_blocks_, me.host_ptr, me)
            ELSE allocated_blocks_
     /\ UNCHANGED << free_blocks_, heap, brk, bft_map, owner, legacy, aliased >>
     /\ Record(Event("get_block_info", 0, CS_ALLOC_HOST, ptr, me, FALSE,
                     found, <<>>))

update_block(t, ptr, me_new) ==
  /\ allocated_blocks_' = Put(allocated_blocks_, ptr, me_new)
  /\ UNCHANGED << free_blocks_, bft_map >>
  /\ Record(Event("update_block", 0, CS_ALLOC_HOST, ptr, me_new, FALSE,
                  ptr \in DOMAIN allocated_blocks_, <<>>))

\* Variant of insert_block that stores nothing.
InsertNothing(t, unmanaged_block) ==
  /\ UNCHANGED << poolvars, owner, legacy, aliased >>
  /\ Record(Event("insert_block", 0, CS_ALLOC_HOST, unmanaged_block.host_ptr,
                  unmanaged_block, FALSE, FALSE, <<>>))

insert_block(t, unmanaged_block) ==
  /\ allocated_blocks_' =
       Put(allocated_blocks_, unmanaged_block.host_ptr, unmanaged_block)
  /\ UNCHANGED << free_blocks_, heap, brk, bft_map, owner, legacy, aliased >>
  /\ Record(Event("insert_block", 0, CS_ALLOC_HOST, unmanaged_block.host_ptr,
                  unmanaged_block, FALSE,
                  unmanaged_block.host_ptr \in DOMAIN allocated_blocks_, <<>>))

(***************************************************************************)
(* Callers.  A caller releases pointers it holds, looks any pointer up,    *)
(* attaches a device mirror to a block it holds, and registers blocks it   *)
(* allocated outside the pool.                                             *)
(***************************************************************************)
\* A block allocated outside the pool at address a.
LegacyBlock(a) == cs_mem_block_t(a, nullptr, 64, CS_ALLOC_HOST, 0)

\* p is the device mirror of a block, not the pointer that designates it.
IsMirror(p) ==
  \E k \in DOMAIN allocated_blocks_ :
    /\ allocated_blocks_[k].device_ptr = p
    /\ allocated_blocks_[k].host_ptr \notin { nullptr, p }

Releasable(t) == { nullptr } \cup { p \in Ptr : owner[p] = t /\ ~ IsMirror(p) }

Promotable(t) ==
  { p \in DOMAIN allocated_blocks_ \ { nullptr } :
      /\ owner[p] = t
      /\ allocated_blocks_[p].device_ptr = nullptr
      /\ allocated_blocks_[p].mode \in
           { CS_ALLOC_HOST_DEVICE, CS_ALLOC_HOST_DEVICE_PINNED } }

\* The thread that makes the calls when they are taken one at a time.
MainThread == CHOOSE t \in Threads : \A u \in Threads : t <= u

(***************************************************************************)
(* The process.  proc.flag and proc.instance are the statics of            *)
(* MemoryPool::instance (flag: "init", "running" while one thread runs the *)
(* initializer, "done"); built and destroyed count the constructor and     *)
(* destructor runs; at[t] is the position of thread t in instance(),       *)
(* got[t] the object it was returned, waited the threads that found the    *)
(* initializer running; exited is set by process teardown.                 *)
(***************************************************************************)
ProcStart ==
  [flag |-> "init", instance |-> nullptr, built |-> 0, destroyed |-> 0,
   at |-> [t \in Threads |-> "out"], got |-> [t \in Threads |-> nullptr],
   waited |-> {}, exited |-> FALSE]

\* Every thread has obtained the instance.
ProcReady ==
  [ProcStart EXCEPT !.flag = "done", !.instance = 1, !.built = 1,
                    !.got = [t \in Threads |-> 1]]

\* MemoryPool::MemoryPool() = default: empty maps, free mutex.
PoolInit ==
  /\ allocated_blocks_ = EmptyMap
  /\ free_blocks_ = [m \in cs_alloc_mode_t |-> <<>>]
  /\ mutex_ = 0
  /\ heap = {}
  /\ brk = 0
  /\ bft_map = EmptyMap
  /\ legacy = {}
  /\ owner = [p \in Ptr |-> 0]
  /\ pc = [t \in Threads |-> "idle"]
  /\ frame = [t \in Threads |-> NoEvent]
  /\ last = NoEvent
  /\ batch = NoBatch
  /\ tick = FALSE
  /\ idle = [p \in {} |-> [own |-> 0, other |-> 0]]
  /\ shapes = [phys |-> [sh \in {} |-> 0], evicted |-> {}]
  /\ aliased = FALSE
  /\ ncalls = 0

\* No neighborhood routine has been called.
NbhNone == [phase |-> "none"]

Init == PoolInit /\ proc = ProcReady /\ nbh = NbhNone

(***************************************************************************)
(* Calls taken one at a time, each as a whole, at most n of them, with the *)
(* arguments of acquire drawn from the given sets.                         *)
(***************************************************************************)
Acquire(n, S, M, F) ==
  \E size \in S, mode \in M, file_name \in F :
    /\ ncalls < n
    /\ allocate(MainThread, size, mode, file_name)
    /\ UNCHANGED ctlvars

Release(n, P) ==
  \E ptr \in Releasable(MainThread) \cap P :
    /\ ncalls < n
    /\ deallocate(MainThread, ptr)
    /\ UNCHANGED ctlvars

Lookup(n) ==
  \E ptr \in { p \in Ptr : p <= brk + 1 } \cup { nullptr } :
    /\ ncalls < n
    /\ get_block_info(MainThread, ptr)
    /\ UNCHANGED ctlvars

\* promote_to_device: allocate_device, then update_block under the same key.
Promote(n) ==
  \E ptr \in Promotable(MainThread) : \E a \in Fresh(heap) :
    /\ ncalls < n
    /\ update_block(MainThread, ptr,
                    allocate_device(allocated_blocks_[ptr], a))
    /\ heap' = heap \cup {a}
    /\ brk' = Max(brk, a)
    /\ owner' = [owner EXCEPT ![a] = MainThread]
    /\ UNCHANGED << legacy, aliased >>
    /\ UNCHANGED ctlvars

InsertExternal(n) ==
  \E a \in { p \in legacy : owner[p] = MainThread } :
    /\ ncalls < n
    /\ insert_block(MainThread, LegacyBlock(a))
    /\ UNCHANGED ctlvars

\* A caller allocates a block outside the pool; the allocator's bookkeeping
\* records it when the allocation is a tracked one.
ExternAlloc(n) ==
  \E a \in Fresh(heap) : \E tracked \in BOOLEAN :
    /\ ncalls < n
    /\ heap' = heap \cup {a}
    /\ brk' = Max(brk, a)
    /\ bft_map' = IF tracked THEN bft_insert(bft_map, LegacyBlock(a))
                             ELSE bft_map
    /\ owner' = [owner EXCEPT ![a] = MainThread]
    /\ legacy' = legacy \cup {a}
    /\ UNCHANGED << allocated_blocks_, free_blocks_, aliased >>
    /\ Record(Event("extern", 0, CS_ALLOC_HOST, a, LegacyBlock(a), TRUE,
                    FALSE, <<>>))
    /\ UNCHANGED ctlvars

(***************************************************************************)
(* Spec: any sequence of at most MaxCalls calls.                           *)
(***************************************************************************)
Next ==
  \/ Acquire(MaxCalls, Sizes, cs_alloc_mode_t, BOOLEAN)
  \/ Release(MaxCalls, Ptr \cup { nullptr })
  \/ Lookup(MaxCalls)
  \/ Promote(MaxCalls)
  \/ InsertExternal(MaxCalls)
  \/ ExternAlloc(MaxCalls)

Spec == Init /\ [][Next]_vars

(***************************************************************************)
(* SpecCycle: acquire and release calls only.                              *)
(***************************************************************************)
CycleSizes == { 64, 65 }

CycleModes == { CS_ALLOC_HOST, CS_ALLOC_HOST_DEVICE_SHARED }

NextCycle ==
  \/ Acquire(MaxCycle, CycleSizes, CycleModes, BOOLEAN)
  \/ Release(MaxCycle, Ptr)

SpecCycle == Init /\ [][NextCycle]_vars

(***************************************************************************)
(* SpecTwice: acquire and release calls, where a caller may also release a *)
(* pointer again that it has released and not been given back since.       *)
(***************************************************************************)
ReleaseAgain(n) ==
  \E ptr \in Retired_(free_blocks_) \ { nullptr } :
    /\ ncalls < n
    /\ owner[ptr] = 0
    /\ deallocate(MainThread, ptr)
    /\ UNCHANGED ctlvars

NextTwice ==
  \/ Acquire(MaxCycle, CycleSizes, CycleModes, BOOLEAN)
  \/ Release(MaxCycle, Ptr)
  \/ ReleaseAgain(MaxCycle)

SpecTwice == Init /\ [][NextTwice]_vars

(***************************************************************************)
(* The same calls made by several threads.  A method that takes the lock   *)
(* (std::lock_guard on mutex_) enters when the mutex is free and holds it  *)
(* until it returns; insert_block takes no lock.  deallocate(nullptr)      *)
(* returns before taking the lock.                                         *)
(***************************************************************************)
Frame(op, size, mode, file_name, ptr, blk) ==
  Event(op, size, mode, ptr, blk, file_name, FALSE, <<>>)

\* Calls begun: completed or under way.
Started == ncalls + Cardinality({ t \in Threads : pc[t] # "idle" })

Lock(t, fr) ==
  /\ pc[t] = "idle"
  /\ mutex_ = 0
  /\ mutex_' = t
  /\ pc' = [pc EXCEPT ![t] = fr.op]
  /\ frame' = [frame EXCEPT ![t] = fr]
  /\ UNCHANGED << poolvars, ghostvars, envvars >>

Unlock(t) ==
  /\ mutex_' = 0
  /\ UNCHANGED envvars
  /\ pc' = [pc EXCEPT ![t] = "idle"]
  /\ frame' = [frame EXCEPT ![t] = NoEvent]

EnterAllocate(n, S, M, F) ==
  \E t \in Threads, size \in S, mode \in M, file_name \in F :
    /\ Started < n
    /\ Lock(t, Frame("allocate", size, mode, file_name, nullptr, me_default))

ExitAllocate ==
  \E t \in Threads :
    /\ pc[t] = "allocate" /\ mutex_ = t
    /\ allocate(t, frame[t].size, frame[t].mode, frame[t].fresh)
    /\ Unlock(t)

EnterDeallocate(n) ==
  \E t \in Threads : \E ptr \in Releasable(t) \ { nullptr } :
    /\ Started < n
    /\ Lock(t, Frame("deallocate", 0, CS_ALLOC_HOST, FALSE, ptr, me_default))

ExitDeallocate ==
  \E t \in Threads :
    /\ pc[t] = "deallocate" /\ mutex_ = t
    /\ deallocate(t, frame[t].ptr)
    /\ Unlock(t)

DeallocateNull(n) ==
  \E t \in Threads :
    /\ Started < n
    /\ pc[t] = "idle"
    /\ deallocate(t, nullptr)
    /\ UNCHANGED ctlvars

EnterGetBlockInfo(n) ==
  \E t \in Threads : \E ptr \in { p \in Ptr : p <= brk + 1 } \cup { nullptr } :
    /\ Started < n
    /\ Lock(t, Frame("get_block_info", 0, CS_ALLOC_HOST, FALSE, ptr,
                     me_default))

ExitGetBlockInfo ==
  \E t \in Threads :
    /\ pc[t] = "get_block_info" /\ mutex_ = t
    /\ get_block_info(t, frame[t].ptr)
    /\ Unlock(t)

\* allocate_device is called outside the lock, update_block takes it.
EnterUpdateBlock(n) ==
  \E t \in Threads : \E ptr \in Promotable(t) : \E a \in Fresh(heap) :
    /\ Started < n
    /\ pc[t] = "idle"
    /\ mutex_ = 0
    /\ mutex_' = t
    /\ pc' = [pc EXCEPT ![t] = "update_block"]
    /\ frame' = [frame EXCEPT ![t] =
                   Frame("update_block", 0, CS_ALLOC_HOST, FALSE, ptr,
                         allocate_device(allocated_blocks_[ptr], a))]
    /\ heap' = heap \cup {a}
    /\ brk' = Max(brk, a)
    /\ owner' = [owner EXCEPT ![a] = t]
    /\ UNCHANGED << allocated_blocks_, free_blocks_, bft_map, legacy, last,
                    batch, tick, idle, shapes, aliased, ncalls, envvars >>

ExitUpdateBlock ==
  \E t \in Threads :
    /\ pc[t] = "update_block" /\ mutex_ = t
    /\ update_block(t, frame[t].ptr, frame[t].blk)
    /\ UNCHANGED << heap, brk, owner, legacy, aliased >>
    /\ Unlock(t)

EnterInsertBlock(n) ==
  \E t \in Threads : \E a \in { p \in legacy : owner[p] = t } :
    /\ Started < n
    /\ pc[t] = "idle"
    /\ pc' = [pc EXCEPT ![t] = "insert_block"]
    /\ frame' = [frame EXCEPT ![t] =
                   Frame("insert_block", 0, CS_ALLOC_HOST, FALSE, a,
                         LegacyBlock(a))]
    /\ UNCHANGED << mutex_, poolvars, ghostvars, envvars >>

\* insert_block writes allocated_blocks_ unlocked.  When another thread is
\* inside a method at that time the write is a data race: it takes effect
\* or it is lost.
ExitInsertBlock ==
  \E t \in Threads :
    /\ pc[t] = "insert_block"
    /\ \/ insert_block(t, frame[t].blk)
       \/ /\ \E u \in Threads \ {t} : pc[u] # "idle"
          /\ UNCHANGED << poolvars, owner, legacy, aliased >>
          /\ Record(Event("insert_block", 0, CS_ALLOC_HOST, frame[t].ptr,
                          frame[t].blk, FALSE, FALSE, <<>>))
    /\ pc' = [pc EXCEPT ![t] = "idle"]
    /\ frame' = [frame EXCEPT ![t] = NoEvent]
    /\ UNCHANGED << mutex_, envvars >>

ThreadExternAlloc(n) ==
  \E t \in Threads : \E a \in Fresh(heap) :
    /\ Started < n
    /\ pc[t] = "idle"
    /\ heap' = heap \cup {a}
    /\ brk' = Max(brk, a)
    /\ bft_map' = bft_insert(bft_map, LegacyBlock(a))
    /\ owner' = [owner EXCEPT ![a] = t]
    /\ legacy' = legacy \cup {a}
    /\ UNCHANGED << allocated_blocks_, free_blocks_, aliased >>
    /\ Record(Event("extern", 0, CS_ALLOC_HOST, a, LegacyBlock(a), TRUE,
                    FALSE, <<>>))
    /\ UNCHANGED ctlvars

(***************************************************************************)
(* SpecAR: concurrent acquire and release calls.                           *)
(***************************************************************************)
ARSizes == { 64 }

ARModes == { CS_ALLOC_HOST, CS_ALLOC_DEVICE }

NextAR ==
  \/ EnterAllocate(MaxCalls + 1, ARSizes, ARModes, BOOLEAN)
  \/ ExitAllocate
  \/ EnterDeallocate(MaxCalls + 1)
  \/ ExitDeallocate

SpecAR == Init /\ [][NextAR]_vars

(***************************************************************************)
(* SpecMT: all public methods, called concurrently.                        *)
(***************************************************************************)
MTModes == { CS_ALLOC_HOST_DEVICE }

NextMT ==
  \/ EnterAllocate(MaxCalls, ARSizes, MTModes, { TRUE })
  \/ ExitAllocate
  \/ EnterDeallocate(MaxCalls)
  \/ ExitDeallocate
  \/ DeallocateNull(MaxCalls)
  \/ EnterGetBlockInfo(MaxCalls)
  \/ ExitGetBlockInfo
  \/ EnterUpdateBlock(MaxCalls)
  \/ ExitUpdateBlock
  \/ EnterInsertBlock(MaxCalls)
  \/ ExitInsertBlock
  \/ ThreadExternAlloc(MaxCalls)

SpecMT == Init /\ [][NextMT]_vars

(***************************************************************************)
(* SpecEvict: repeated acquire/release cycles over a fixed set of shapes,  *)
(* with at most one block of each shape checked out at any time, for as    *)
(* long as it takes for retired blocks to reach the ttl threshold.         *)
(***************************************************************************)
EvictShapes ==
  { << 64, CS_ALLOC_HOST >>, << 65, CS_ALLOC_HOST >>,
    << 64, CS_ALLOC_HOST_DEVICE_SHARED >> }

\* A block of the shape is checked out.
Outstanding(size, mode) ==
  \E k \in DOMAIN allocated_blocks_ :
    /\ allocated_blocks_[k].size = AdjustedSize(size)
    /\ allocated_blocks_[k].mode = mode
    /\ \E p \in PtrsOf(allocated_blocks_[k]) : owner[p] # 0

AcquireShape ==
  \E sh \in EvictShapes :
    /\ ~ Outstanding(sh[1], sh[2])
    /\ \A k \in DOMAIN shapes.phys : shapes.phys[k] < MaxPhys
    /\ allocate(MainThread, sh[1], sh[2], TRUE)
    /\ UNCHANGED ctlvars

ReleaseShape ==
  \E ptr \in Releasable(MainThread) \ { nullptr } :
    /\ deallocate(MainThread, ptr)
    /\ UNCHANGED ctlvars

NextEvict ==
  \/ AcquireShape
  \/ ReleaseShape

SpecEvict == Init /\ [][NextEvict]_vars

(***************************************************************************)
(* SpecLife: the life of the singleton.  Threads call instance() for the   *)
(* first time, concurrently; the main thread then uses the pool; the       *)
(* process ends.                                                           *)
(***************************************************************************)
InitLife == PoolInit /\ proc = ProcStart /\ nbh = NbhNone

\* Variant of call_once that lets in every thread that finds the
\* initialization not completed.
MayRunUnguarded(f) == f # "done"

\* std::call_once: the thread that finds the flag unset runs the callable.
MayRun(f) == f = "init"

OutOfPool == UNCHANGED << poolvars, ghostvars, mutex_, pc, frame, nbh >>

\* Lines 34-36: thread t reaches call_once in its first call of instance().
EnterInstance ==
  \E t \in Threads :
    /\ ~ proc.exited
    /\ proc.at[t] = "out"
    /\ proc.got[t] = nullptr
    /\ proc' =
         IF MayRun(proc.flag)
           THEN [proc EXCEPT !.flag = "running", !.at[t] = "new"]
         ELSE IF proc.flag = "running"
           THEN [proc EXCEPT !.at[t] = "wait", !.waited = @ \cup {t}]
           ELSE [proc EXCEPT !.at[t] = "return"]
    /\ OutOfPool

\* Line 36: instance = new MemoryPool(); the flag is set when the callable
\* returns.
RunInitializer ==
  \E t \in Threads :
    /\ proc.at[t] = "new"
    /\ proc' = [proc EXCEPT !.instance = proc.built + 1,
                            !.built = @ + 1,
                            !.flag = "done",
                            !.at[t] = "return"]
    /\ OutOfPool

\* call_once returns in a thread that waited for the initializer.
WakeUp ==
  \E t \in Threads :
    /\ proc.at[t] = "wait"
    /\ proc.flag = "done"
    /\ proc' = [proc EXCEPT !.at[t] = "return"]
    /\ OutOfPool

\* Line 37: return *instance;
ReturnInstance ==
  \E t \in Threads :
    /\ proc.at[t] = "return"
    /\ proc' = [proc EXCEPT !.got[t] = proc.instance, !.at[t] = "out"]
    /\ OutOfPool

LifeAcquire ==
  /\ proc.got[MainThread] # nullptr
  /\ ~ proc.exited
  /\ Acquire(MaxCalls, CycleSizes, CycleModes, { TRUE })

LifeRelease ==
  /\ proc.got[MainThread] # nullptr
  /\ ~ proc.exited
  /\ Release(MaxCalls, Ptr)

\* The addresses ~MemoryPool would release (lines 44-49: free_block on every
\* entry of every free-list).
DestructorFrees ==
  UNION { FreedBy(free_blocks_[m]) : m \in cs_alloc_mode_t }

\* Process teardown.  The statics of instance() are a once_flag and a
\* pointer: their destruction does nothing, and no code deletes *instance
\* (the destructor is private), so ~MemoryPool does not run.
Teardown ==
  /\ ~ proc.exited
  /\ \A t \in Threads : proc.at[t] = "out"
  /\ proc' = [proc EXCEPT !.exited = TRUE]
  /\ OutOfPool

NextLife ==
  \/ EnterInstance
  \/ RunInitializer
  \/ WakeUp
  \/ ReturnInstance
  \/ LifeAcquire
  \/ LifeRelease
  \/ Teardown

SpecLife == InitLife /\ [][NextLife]_vars

(***************************************************************************)
(* Extended neighborhood (src/src/base/cs_ext_neighborhood.c): reversal of *)
(* the "ghost cell -> vertices" connectivity.  A C array of n elements is  *)
(* a function on 0..n-1; an adjacency is an index array and a list array.  *)
(* Vertex numbers in gcell_vtx_lst start at 1, ids start at 0.             *)
(***************************************************************************)
Arr(n, v) == [i \in 0..(n - 1) |-> v]

\* Lines 408-415 and 476-483: the ghost cells [start_idx, end_idx) scanned.
ScanRange(halo, rank_id) ==
  IF rank_id = 0 - 1
    THEN [start_idx |-> 0, end_idx |-> halo.n_elts_extended]
    ELSE [start_idx |-> halo.index[2 * rank_id],
          end_idx |-> halo.index[2 * rank_id + 1]]

\* The (id, j) pairs the two nested loops visit, in order.
RECURSIVE ScanFrom(_, _, _, _)
ScanFrom(gcell_vtx_idx, id, end_idx, j) ==
  IF id >= end_idx THEN << >>
  ELSE IF j < gcell_vtx_idx[id + 1]
    THEN << << id, j >> >> \o ScanFrom(gcell_vtx_idx, id, end_idx, j + 1)
  ELSE IF id + 1 < end_idx
    THEN ScanFrom(gcell_vtx_idx, id + 1, end_idx, gcell_vtx_idx[id + 1])
    ELSE << >>

Scan(range, gcell_vtx_idx) ==
  IF range.start_idx < range.end_idx
    THEN ScanFrom(gcell_vtx_idx, range.start_idx, range.end_idx,
                  gcell_vtx_idx[range.start_idx])
    ELSE << >>

\* Variant of the checker test that never recognises a vertex.
NeverSeen(checker, vtx_id, id) == FALSE

\* Lines 425 and 493: the negation of checker[vtx_id] != id.
Seen(checker, vtx_id, id) == checker[vtx_id] = id

\* Lines 419-432: the counting loop, from the k-th visited pair on.
RECURSIVE IdxLoop(_, _, _, _)
IdxLoop(st, scan, k, gcell_vtx_lst) ==
  IF k > Len(scan) THEN st
  ELSE LET id == scan[k][1]
           vtx_id == gcell_vtx_lst[scan[k][2]] - 1
       IN IdxLoop(IF ~ Seen(st.checker, vtx_id, id)
                    THEN [st EXCEPT !.checker[vtx_id] = id,
                                    !.vtx_gcells_idx[vtx_id + 1] = @ + 1]
                    ELSE st,
                  scan, k + 1, gcell_vtx_lst)

\* An index left as the counts of the rows.
NoPrefixSum(vtx_gcells_idx, i, n_vertices) == vtx_gcells_idx

\* Lines 434-435: vtx_gcells_idx[i+1] += vtx_gcells_idx[i], from i on.
RECURSIVE PrefixSum(_, _, _)
PrefixSum(vtx_gcells_idx, i, n_vertices) ==
  IF i >= n_vertices THEN vtx_gcells_idx
  ELSE PrefixSum([vtx_gcells_idx EXCEPT ![i + 1] = @ + vtx_gcells_idx[i]],
                 i + 1, n_vertices)

\* The arrays checker and vtx_gcells_idx at the return of the function.
reverse_connectivity_idx(halo, n_vertices, rank_id, gcell_vtx_idx, gcell_vtx_lst) ==
  LET st0 == [checker |-> Arr(n_vertices, 0 - 1),
              vtx_gcells_idx |-> Arr(n_vertices + 1, 0)]
      st1 == IdxLoop(st0, Scan(ScanRange(halo, rank_id), gcell_vtx_idx), 1,
                     gcell_vtx_lst)
  IN [st1 EXCEPT !.vtx_gcells_idx = PrefixSum(@, 0, n_vertices)]

\* Lines 487-504: the filling loop, from the k-th visited pair on.
RECURSIVE LstLoop(_, _, _, _, _)
LstLoop(st, scan, k, gcell_vtx_lst, vtx_gcells_idx) ==
  IF k > Len(scan) THEN st
  ELSE LET id == scan[k][1]
           vtx_id == gcell_vtx_lst[scan[k][2]] - 1
           shift == vtx_gcells_idx[vtx_id] + st.counter[vtx_id]
       IN LstLoop(IF ~ Seen(st.checker, vtx_id, id)
                    THEN [st EXCEPT !.checker[vtx_id] = id,
                                    !.vtx_gcells_lst[shift] = id,
                                    !.counter[vtx_id] = @ + 1]
                    ELSE st,
                  scan, k + 1, gcell_vtx_lst, vtx_gcells_idx)

\* The value of an element of an allocated array that was never written; no
\* cell, face or vertex number or id, with either sign, is that low.
Unset == 0 - 1000

\* The arrays counter, checker and vtx_gcells_lst at the return of the
\* function; vtx_gcells_lst has vtx_gcells_idx[n_vertices] elements (line
\* 549).
reverse_connectivity_lst(halo, n_vertices, rank_id, gcell_vtx_idx, gcell_vtx_lst, vtx_gcells_idx) ==
  LstLoop([counter |-> Arr(n_vertices, 0),
           checker |-> Arr(n_vertices, 0 - 1),
           vtx_gcells_lst |-> Arr(vtx_gcells_idx[n_vertices], Unset)],
          Scan(ScanRange(halo, rank_id), gcell_vtx_idx), 1,
          gcell_vtx_lst, vtx_gcells_idx)

(***************************************************************************)
(* SpecRev: _create_vtx_gcells_connect on every small "ghost cell ->       *)
(* vertices" connectivity.  A row may list a vertex several times, next to *)
(* each other or not; vertex numbers in the list start at 1.               *)
(***************************************************************************)
\* Largest number of vertices.
NVtx == 2
\* Largest number of ghost cells (halo->n_elts[CS_HALO_EXTENDED]).
NGc == 2
\* Largest number of elements of gcells_vtx_lst.
MaxLst == 4

\* gcell_vtx_idx is a connectivity index of n_gcells rows on a list of n
\* elements: it starts at 0, never decreases and ends at n.
IsIndex(gcell_vtx_idx, n_gcells, n) ==
  /\ gcell_vtx_idx[0] = 0
  /\ gcell_vtx_idx[n_gcells] = n
  /\ \A i \in 0..(n_gcells - 1) : gcell_vtx_idx[i] <= gcell_vtx_idx[i + 1]

\* The arguments of _create_vtx_gcells_connect (lines 522-527).
NbhInput(n_vertices, n_gcells, gcell_vtx_idx, gcell_vtx_lst) ==
  [phase |-> "in",
   halo |-> [n_elts_extended |-> n_gcells, index |-> << >>],
   n_vertices |-> n_vertices,
   rank_id |-> 0 - 1,
   gcell_vtx_idx |-> gcell_vtx_idx,
   gcell_vtx_lst |-> gcell_vtx_lst]

InitRev ==
  /\ PoolInit
  /\ proc = ProcReady
  /\ \E n_vertices \in 1..NVtx, n_gcells \in 0..NGc, n \in 0..MaxLst :
       \E gcell_vtx_idx \in [0..n_gcells -> 0..n],
          gcell_vtx_lst \in [0..(n - 1) -> 1..n_vertices] :
         /\ IsIndex(gcell_vtx_idx, n_gcells, n)
         /\ nbh = NbhInput(n_vertices, n_gcells, gcell_vtx_idx, gcell_vtx_lst)

OutOfNbh == UNCHANGED << poolvars, ghostvars, mutex_, pc, frame, proc >>

\* Lines 541-547: the call of _reverse_connectivity_idx.
ReverseIdx ==
  /\ nbh.phase = "in"
  /\ LET r == reverse_connectivity_idx(nbh.halo, nbh.n_vertices, nbh.rank_id,
                                       nbh.gcell_vtx_idx, nbh.gcell_vtx_lst)
     IN nbh' = [phase |-> "idx",
                halo |-> nbh.halo,
                n_vertices |-> nbh.n_vertices,
                rank_id |-> nbh.rank_id,
                gcell_vtx_idx |-> nbh.gcell_vtx_idx,
                gcell_vtx_lst |-> nbh.gcell_vtx_lst,
                checker |-> r.checker,
                vtx_gcells_idx |-> r.vtx_gcells_idx]
  /\ OutOfNbh

\* Lines 549-559: the allocation of vtx_gcells_lst and the call of
\* _reverse_connectivity_lst.
ReverseLst ==
  /\ nbh.phase = "idx"
  /\ LET r == reverse_connectivity_lst(nbh.halo, nbh.n_vertices, nbh.rank_id,
                                       nbh.gcell_vtx_idx, nbh.gcell_vtx_lst,
                                       nbh.vtx_gcells_idx)
     IN nbh' = [phase |-> "lst",
                halo |-> nbh.halo,
                n_vertices |-> nbh.n_vertices,
                rank_id |-> nbh.rank_id,
                gcell_vtx_idx |-> nbh.gcell_vtx_idx,
                gcell_vtx_lst |-> nbh.gcell_vtx_lst,
                checker |-> r.checker,
                counter |-> r.counter,
                vtx_gcells_idx |-> nbh.vtx_gcells_idx,
                vtx_gcells_lst |-> r.vtx_gcells_lst]
  /\ OutOfNbh

NextRev ==
  \/ ReverseIdx
  \/ ReverseLst

SpecRev == InitRev /\ [][NextRev]_vars

(***************************************************************************)
(* Extended neighborhood: the builder cs_ext_neighborhood_define and the   *)
(* filter redvse.  Cell, face and vertex numbers start at 1, ids at 0; an  *)
(* adjacency is a record [idx, lst] of two arrays.  A mesh has n_cells     *)
(* local cells followed by its ghost cells.                                *)
(***************************************************************************)
\* Largest number of local cells.
NCells == 3
\* Largest number of ghost cells.
NGhosts == 1
\* Largest number of internal faces.
NFaces == 2
\* Largest number of calls of redvse.
MaxRedvse == 2

\* for (i = lo; i < hi; i++) st = Body(st, i); the state after an iteration
\* is computed (the test forces it) before the next iteration starts.
RECURSIVE For(_, _, _, _)
For(lo, hi, Body(_, _), st) ==
  IF lo >= hi
    THEN st
    ELSE LET next == Body(st, lo)
         IN IF next = next THEN For(lo + 1, hi, Body, next) ELSE st

CS_ABS(a) == IF a < 0 THEN 0 - a ELSE a

\* The arrays of the adjacency whose rows 0..n-1 are the given sequences,
\* with an index that starts at base.
Csr(rows, n, base) ==
  LET flat == For(0, n, LAMBDA s, i : s \o rows[i], << >>)
  IN [idx |-> [i \in 0..n |->
                 base + Len(For(0, i, LAMBDA s, k : s \o rows[k], << >>))],
      lst |-> [j \in 0..(Len(flat) - 1) |-> flat[j + 1]]]

\* A test that gives no cell a row entry.
NeverListed(j, n_cells) == FALSE

\* Lines 131, 133, 154, 158: the cell j of a face has a row.
Listed(j, n_cells) == j < n_cells

\* Lines 102-171; the index starts at 1, the face numbers are signed.
get_cell_i_faces_connectivity(mesh) ==
  LET n_cells == mesh.n_cells
      j1(i) == mesh.i_face_cells[i * 2] - 1
      j2(i) == mesh.i_face_cells[i * 2 + 1] - 1
      counted ==
        For(0, mesh.n_i_faces,
            LAMBDA idx, i :
              LET a == IF Listed(j1(i), n_cells)
                         THEN [idx EXCEPT ![j1(i) + 1] = @ + 1] ELSE idx
              IN IF Listed(j2(i), n_cells)
                   THEN [a EXCEPT ![j2(i) + 1] = @ + 1] ELSE a,
            Arr(n_cells + 1, 0))
      cell_faces_idx == PrefixSum([counted EXCEPT ![0] = 1], 0, n_cells)
      filled ==
        For(0, mesh.n_i_faces,
            LAMBDA st, i :
              LET a == IF Listed(j1(i), n_cells)
                         THEN [st EXCEPT
                                 !.lst[cell_faces_idx[j1(i)]
                                       + st.count[j1(i)] - 1] = i + 1,
                                 !.count[j1(i)] = @ + 1]
                         ELSE st
              IN IF Listed(j2(i), n_cells)
                   THEN [a EXCEPT
                           !.lst[cell_faces_idx[j2(i)]
                                 + a.count[j2(i)] - 1] = 0 - (i + 1),
                           !.count[j2(i)] = @ + 1]
                   ELSE a,
            [lst |-> Arr(cell_faces_idx[n_cells] - 1, Unset),
             count |-> Arr(n_cells, 0)])
  IN [idx |-> cell_faces_idx, lst |-> filled.lst]

\* Lines 618-640, 653-677, 743-801 and 815-881: the loops over the faces i
\* of a cell and the vertices i_vtx of the face.
ForFaceVtx(mesh, cell_i_faces, cell_id, Body(_, _), st) ==
  For(cell_i_faces.idx[cell_id], cell_i_faces.idx[cell_id + 1],
      LAMBDA s1, i :
        LET fac_id == CS_ABS(cell_i_faces.lst[i - 1]) - 1
        IN For(mesh.i_face_vtx_idx[fac_id], mesh.i_face_vtx_idx[fac_id + 1],
               LAMBDA s2, i_vtx :
                 Body(s2, mesh.i_face_vtx_lst[i_vtx - 1] - 1),
               s1),
      st)

\* Lines 581-684; the index starts at 0, the list holds cell ids.
create_vtx_cells_connect2(mesh, cell_i_faces) ==
  LET n_vertices == mesh.n_vertices
      counted ==
        For(0, mesh.n_cells,
            LAMBDA s0, cell_id :
              ForFaceVtx(mesh, cell_i_faces, cell_id,
                LAMBDA st, vtx_id :
                  IF ~ Seen(st.vtx_tag, vtx_id, cell_id)
                    THEN [st EXCEPT !.vtx_cells_idx[vtx_id + 1] = @ + 1,
                                    !.vtx_tag[vtx_id] = cell_id]
                    ELSE st,
                s0),
            [vtx_cells_idx |-> Arr(n_vertices + 1, 0),
             vtx_tag |-> Arr(n_vertices, 0 - 1)])
      vtx_cells_idx == PrefixSum(counted.vtx_cells_idx, 0, n_vertices)
      filled ==
        For(0, mesh.n_cells,
            LAMBDA s0, cell_id :
              ForFaceVtx(mesh, cell_i_faces, cell_id,
                LAMBDA st, vtx_id :
                  IF ~ Seen(st.vtx_tag, vtx_id, cell_id)
                    THEN [st EXCEPT
                            !.vtx_cells_lst[vtx_cells_idx[vtx_id]
                                            + st.vtx_count[vtx_id]] = cell_id,
                            !.vtx_tag[vtx_id] = cell_id,
                            !.vtx_count[vtx_id] = @ + 1]
                    ELSE st,
                s0),
            [vtx_cells_lst |-> Arr(vtx_cells_idx[n_vertices], Unset),
             vtx_tag |-> Arr(n_vertices, 0 - 1),
             vtx_count |-> Arr(n_vertices, 0)])
  IN [idx |-> vtx_cells_idx, lst |-> filled.vtx_cells_lst]

\* Lines 701-890; the index starts at 1, the list holds cell numbers.
create_cell_cells_connect(mesh, cell_i_faces, vtx_gcells, vtx_cells) ==
  LET n_cells == mesh.n_cells
      n_cells_wghosts == mesh.n_cells_with_ghosts
      \* Lines 747-754 and 819-826: the cells of the faces of i_cel are
      \* tagged.
      TagFaceCells(i_cel, cell_tag) ==
        For(cell_i_faces.idx[i_cel], cell_i_faces.idx[i_cel + 1],
            LAMBDA tag, i :
              LET fac_id == CS_ABS(cell_i_faces.lst[i - 1]) - 1
              IN [tag EXCEPT ![mesh.i_face_cells[2 * fac_id] - 1] = i_cel,
                             ![mesh.i_face_cells[2 * fac_id + 1] - 1] = i_cel],
            cell_tag)
      \* Lines 769-795 and 841-875: the cells and the ghost cells of a vertex.
      ForVtxCells(vtx_id, Body(_, _), st) ==
        LET a == For(vtx_cells.idx[vtx_id], vtx_cells.idx[vtx_id + 1],
                     LAMBDA s, j : Body(s, vtx_cells.lst[j]), st)
        IN IF n_cells_wghosts - n_cells > 0
             THEN For(vtx_gcells.idx[vtx_id], vtx_gcells.idx[vtx_id + 1],
                      LAMBDA s, j : Body(s, vtx_gcells.lst[j] + n_cells), a)
             ELSE a
      counted ==
        For(0, n_cells,
            LAMBDA s0, i_cel :
              ForFaceVtx(mesh, cell_i_faces, i_cel,
                LAMBDA s1, vtx_id :
                  ForVtxCells(vtx_id,
                    LAMBDA st, cell_id :
                      IF ~ Seen(st.cell_tag, cell_id, i_cel)
                        THEN [st EXCEPT !.cell_cells_idx[i_cel + 1] = @ + 1,
                                        !.cell_tag[cell_id] = i_cel]
                        ELSE st,
                    s1),
                [s0 EXCEPT !.cell_tag = TagFaceCells(i_cel, @)]),
            [cell_cells_idx |-> [Arr(n_cells + 1, 0) EXCEPT ![0] = 1],
             cell_tag |-> Arr(n_cells_wghosts, 0 - 1)])
      cell_cells_idx == PrefixSum(counted.cell_cells_idx, 0, n_cells)
      filled ==
        For(0, n_cells,
            LAMBDA s0, i_cel :
              ForFaceVtx(mesh, cell_i_faces, i_cel,
                LAMBDA s1, vtx_id :
                  ForVtxCells(vtx_id,
                    LAMBDA st, cell_id :
                      IF ~ Seen(st.cell_tag, cell_id, i_cel)
                        THEN [st EXCEPT
                                !.cell_cells_lst[cell_cells_idx[i_cel] - 1
                                                 + st.cell_count[i_cel]] =
                                  cell_id + 1,
                                !.cell_tag[cell_id] = i_cel,
                                !.cell_count[i_cel] = @ + 1]
                        ELSE st,
                    s1),
                [s0 EXCEPT !.cell_tag = TagFaceCells(i_cel, @)]),
            [cell_cells_lst |-> Arr(cell_cells_idx[n_cells] - 1, Unset),
             cell_tag |-> Arr(n_cells_wghosts, 0 - 1),
             cell_count |-> Arr(n_cells, 0)])
  IN [idx |-> cell_cells_idx, lst |-> filled.cell_cells_lst]

\* Lines 1250-1314: the adjacencies built, the last one kept by the mesh.
cs_ext_neighborhood_define(mesh, gcell_vtx) ==
  LET cell_i_faces == get_cell_i_faces_connectivity(mesh)
      vtx_cells == create_vtx_cells_connect2(mesh, cell_i_faces)
      \* Lines 541-559: _create_vtx_gcells_connect, the index starts at 0 and
      \* the list holds ghost cell ids.
      vtx_gcells_idx ==
        reverse_connectivity_idx(mesh.halo, mesh.n_vertices, 0 - 1,
                                 gcell_vtx.idx, gcell_vtx.lst).vtx_gcells_idx
      vtx_gcells ==
        IF mesh.n_cells_with_ghosts - mesh.n_cells > 0
          THEN [idx |-> vtx_gcells_idx,
                lst |-> reverse_connectivity_lst(
                          mesh.halo, mesh.n_vertices, 0 - 1, gcell_vtx.idx,
                          gcell_vtx.lst, vtx_gcells_idx).vtx_gcells_lst]
          ELSE [idx |-> << >>, lst |-> << >>]
  IN [cell_i_faces |-> cell_i_faces,
      vtx_cells |-> vtx_cells,
      vtx_gcells |-> vtx_gcells,
      cell_cells |-> create_cell_cells_connect(mesh, cell_i_faces, vtx_gcells,
                                               vtx_cells)]

\* Lines 182-305; the index starts at 1, the list holds cell numbers.  The
\* list grows by one element at a time (lines 276-283).
create_vtx_cells_connect(mesh) ==
  LET n_vertices == mesh.n_vertices
      ForFaces(Body(_, _, _), st) ==
        For(0, mesh.n_i_faces,
            LAMBDA s1, face_id :
              For(mesh.i_face_vtx_idx[face_id] - 1,
                  mesh.i_face_vtx_idx[face_id + 1] - 1,
                  LAMBDA s2, i : Body(s2, face_id, mesh.i_face_vtx_lst[i] - 1),
                  s1),
            st)
      counted ==
        ForFaces(LAMBDA idx, face_id, vtx_id : [idx EXCEPT ![vtx_id + 1] = @ + 1],
                 Arr(n_vertices + 1, 0))
      started == PrefixSum([counted EXCEPT ![0] = 1], 0, n_vertices)
      filled ==
        ForFaces(LAMBDA st, face_id, vtx_id :
                   [st EXCEPT !.lst[st.idx[vtx_id] - 1] = face_id + 1,
                              !.idx[vtx_id] = @ + 1],
                 [idx |-> started,
                  lst |-> Arr(started[n_vertices] - 1, Unset)])
      vtx_faces_idx ==
        [vtx_id \in 0..n_vertices |->
           IF vtx_id = 0 THEN 1 ELSE filled.idx[vtx_id - 1]]
      built ==
        For(0, n_vertices,
            LAMBDA s0, vtx_id :
              LET s1 ==
                    For(vtx_faces_idx[vtx_id] - 1, vtx_faces_idx[vtx_id + 1] - 1,
                        LAMBDA sa, i :
                          LET face_id == filled.lst[i] - 1
                          IN For(0, 2,
                                 LAMBDA sb, j :
                                   LET cell_num ==
                                         mesh.i_face_cells[2 * face_id + j]
                                       already_seen ==
                                         \E idx \in (sb.idx[vtx_id] - 1)..
                                                    (sb.size - 1) :
                                           sb.lst[idx] = cell_num
                                   IN IF ~ already_seen
                                        THEN [sb EXCEPT
                                                !.lst = [k \in 0..sb.size |->
                                                           IF k < sb.size
                                                             THEN sb.lst[k]
                                                             ELSE cell_num],
                                                !.size = @ + 1]
                                        ELSE sb,
                                 sa),
                        s0)
              IN [s1 EXCEPT !.idx[vtx_id + 1] = s1.size + 1],
            [idx |-> [Arr(n_vertices + 1, 0) EXCEPT ![0] = 1],
             lst |-> << >>,
             size |-> 0])
  IN [idx |-> built.idx, lst |-> built.lst]

\* Confirmation that stops at the first entry confirmed in the whole list.
OnlyFirst(cell_cells_lst, i) == \A k \in DOMAIN cell_cells_lst : cell_cells_lst[k] > 0

\* Lines 344 and 360: the entry i is not confirmed yet.
NotKeptYet(cell_cells_lst, i) == cell_cells_lst[i] > 0

\* Variant of _tag_cells that changes the sign of every entry of the list.
FlipAll(face_id, cell_id, mesh, vtx_cells, cell_cells_lst) ==
  [i \in DOMAIN cell_cells_lst |-> 0 - cell_cells_lst[i]]

\* Lines 318-373: the list after the call.
tag_cells(face_id, cell_id, mesh, vtx_cells, cell_cells_lst) ==
  IF cell_id < mesh.n_cells
    THEN For(mesh.cell_cells.idx[cell_id] - 1,
             mesh.cell_cells.idx[cell_id + 1] - 1,
             LAMBDA lst, i :
               LET ext_cell_num == lst[i]
               IN IF NotKeptYet(lst, i)
                    THEN For(mesh.i_face_vtx_idx[face_id] - 1,
                             mesh.i_face_vtx_idx[face_id + 1] - 1,
                             LAMBDA l2, j :
                               LET vtx_id == mesh.i_face_vtx_lst[j] - 1
                               IN For(vtx_cells.idx[vtx_id] - 1,
                                      vtx_cells.idx[vtx_id + 1] - 1,
                                      LAMBDA l3, k :
                                        IF /\ vtx_cells.lst[k] = ext_cell_num
                                           /\ NotKeptYet(l3, i)
                                          THEN [l3 EXCEPT ![i] = 0 - l3[i]]
                                          ELSE l3,
                                      l2),
                             lst)
                    ELSE lst,
             cell_cells_lst)
    ELSE cell_cells_lst

\* The cosines the model knows, in thousandths, by angle in degrees.
Cos1000 == [a \in {0, 30, 45, 60, 90} |->
              CASE a = 0 -> 1000 [] a = 30 -> 866 [] a = 45 -> 707
                [] a = 60 -> 500 [] a = 90 -> 0]

\* A test that takes every face for non-orthogonal.
AlwaysBelow(cos_ij_fn, cos_ij_fn_min) == TRUE

\* Line 1039.
IsBelow(cos_ij_fn, cos_ij_fn_min) == cos_ij_fn <= cos_ij_fn_min

\* Lines 1004-1050: the list after the faces were visited in the given
\* order; the code's order is 0, 1, ..., n_faces - 1.
TagFaces(mesh, order, cos_ij_fn_min, vtx_cells) ==
  For(1, Len(order) + 1,
      LAMBDA lst, n :
        LET face_id == order[n]
            cell_i == mesh.i_face_cells[2 * face_id] - 1
            cell_j == mesh.i_face_cells[2 * face_id + 1] - 1
        IN IF IsBelow(mesh.cos_ij_fn[face_id], cos_ij_fn_min)
             THEN tag_cells(face_id, cell_j, mesh, vtx_cells,
                            tag_cells(face_id, cell_i, mesh, vtx_cells, lst))
             ELSE lst,
      mesh.cell_cells.lst)

\* A compaction that keeps every entry.
KeepAll(cell_num) == TRUE

\* Line 1071.
IsKept(cell_num) == cell_num > 0

\* Lines 1060-1087: the signs changed, the entries below zero deleted, the
\* list shortened.
Compacted(cell_cells, n_cells) ==
  LET size == cell_cells.idx[n_cells] - 1
      flipped == [i \in DOMAIN cell_cells.lst |->
                    IF i < size THEN 0 - cell_cells.lst[i]
                    ELSE cell_cells.lst[i]]
      done ==
        For(0, n_cells,
            LAMBDA st, cell_id :
              LET s1 ==
                    For(st.previous_idx, st.idx[cell_id + 1] - 1,
                        LAMBDA s, i :
                          IF IsKept(s.lst[i])
                            THEN [s EXCEPT !.new_idx = @ + 1,
                                           !.lst[s.new_idx + 1] = s.lst[i]]
                            ELSE [s EXCEPT !.n_deleted_cells = @ + 1],
                        st)
              IN [s1 EXCEPT !.previous_idx = s1.idx[cell_id + 1] - 1,
                            !.idx[cell_id + 1] = @ - s1.n_deleted_cells],
            [idx |-> cell_cells.idx, lst |-> flipped, n_deleted_cells |-> 0,
             previous_idx |-> 0, new_idx |-> 0 - 1])
  IN [idx |-> done.idx,
      lst |-> [i \in 0..(done.idx[n_cells] - 2) |-> done.lst[i]]]

\* A guard that lets every call filter.
EveryCall(first_call) == TRUE

\* Line 961.
IsFirstCall(first_call) == first_call = 0

\* Lines 918-1140: the mesh and the static counter after a call, with the
\* list as it was between the tagging and the compaction.  An array
\* of no element stands for NULL: no array is allocated before the builder
\* has run, and the filter changes nothing in an adjacency of no entry.
redvse(mesh, first_call, anomax) ==
  IF ~ IsFirstCall(first_call)
    THEN [mesh |-> mesh, first_call |-> first_call, warned |-> FALSE,
          tagged |-> << >>]
  ELSE IF \/ mesh.cell_cells.lst = << >>
          \/ mesh.cell_cells.idx = << >>
          \/ mesh.halo_type = "CS_HALO_STANDARD"
    THEN [mesh |-> mesh, first_call |-> 1, warned |-> TRUE, tagged |-> << >>]
  ELSE LET tagged == TagFaces(mesh, [n \in 1..mesh.n_i_faces |-> n - 1],
                              Cos1000[anomax], create_vtx_cells_connect(mesh))
       IN [mesh |-> [mesh EXCEPT !.cell_cells =
                       Compacted([idx |-> mesh.cell_cells.idx, lst |-> tagged],
                                 mesh.n_cells)],
           first_call |-> 1,
           warned |-> FALSE,
           tagged |-> tagged]

(***************************************************************************)
(* SpecNbh: the builder and the filter on every small mesh.  An internal   *)
(* face has two different cells, one of them local at least, and its       *)
(* vertices in increasing order; a ghost cell lists the vertices it shares *)
(* with the local mesh, those of its faces among them.                     *)
(***************************************************************************)
\* The faces have the cells fc, the vertices fv and the angles fa (0 or 45
\* degrees); the ghost cells list the vertices gv.
InitNbh ==
  /\ PoolInit
  /\ proc = ProcReady
  /\ \E n_cells \in 1..NCells, n_ghosts \in 0..NGhosts,
        n_vertices \in 1..NVtx, n_i_faces \in 0..NFaces :
       \E fc \in [0..(n_i_faces - 1) ->
                    { c \in (1..(n_cells + n_ghosts)) \X (1..(n_cells + n_ghosts)) :
                        c[1] # c[2] /\ (c[1] <= n_cells \/ c[2] <= n_cells) }],
          fv \in [0..(n_i_faces - 1) -> (SUBSET (1..n_vertices)) \ {{}}],
          fa \in [0..(n_i_faces - 1) -> {0, 45}],
          gv \in [0..(n_ghosts - 1) -> SUBSET (1..n_vertices)],
          halo_type \in {"CS_HALO_STANDARD", "CS_HALO_EXTENDED"} :
         LET Sorted(S) ==
               CHOOSE q \in [1..Cardinality(S) -> S] :
                 \A a, b \in 1..Cardinality(S) : a < b => q[a] < q[b]
             vtx == Csr([f \in 0..(n_i_faces - 1) |-> Sorted(fv[f])],
                        n_i_faces, 1)
         IN
         /\ \A g \in 0..(n_ghosts - 1), f \in 0..(n_i_faces - 1) :
              n_cells + g + 1 \in {fc[f][1], fc[f][2]} => fv[f] \subseteq gv[g]
         /\ nbh = [phase |-> "mesh",
                   mesh |->
                     [n_cells |-> n_cells,
                      n_cells_with_ghosts |-> n_cells + n_ghosts,
                      n_vertices |-> n_vertices,
                      n_i_faces |-> n_i_faces,
                      i_face_cells |-> [k \in 0..(2 * n_i_faces - 1) |->
                                          fc[k \div 2][(k % 2) + 1]],
                      i_face_vtx_idx |-> vtx.idx,
                      i_face_vtx_lst |-> vtx.lst,
                      cos_ij_fn |-> [f \in 0..(n_i_faces - 1) |->
                                       Cos1000[fa[f]]],
                      halo |-> [n_elts_extended |-> n_ghosts,
                                index |-> << >>],
                      halo_type |-> halo_type,
                      cell_cells |-> [idx |-> << >>, lst |-> << >>]],
                   gcell_vtx |-> Csr([g \in 0..(n_ghosts - 1) |->
                                        Sorted(gv[g])], n_ghosts, 0),
                   first_call |-> 0,
                   built |-> << >>,
                   pre |-> << >>,
                   tagged |-> << >>,
                   anomax |-> 0,
                   calls |-> 0,
                   filtered |-> FALSE,
                   warned |-> FALSE]

\* The call of cs_ext_neighborhood_define; built remembers the adjacencies
\* the call frees at its end.
Define ==
  /\ nbh.phase = "mesh"
  /\ LET After(built) == [nbh EXCEPT !.phase = "defined",
                                    !.mesh.cell_cells = built.cell_cells,
                                    !.built = built]
     IN nbh' = After(cs_ext_neighborhood_define(nbh.mesh, nbh.gcell_vtx))
  /\ OutOfNbh

\* A call of redvse; pre, tagged and anomax remember the mesh before, the
\* list after the tagging and the argument of the call that filtered,
\* filtered that there was one.
Redvse(anomax) ==
  /\ nbh.phase \in {"mesh", "defined"}
  /\ nbh.calls < MaxRedvse
  /\ LET After(r) ==
           LET filters == IsFirstCall(nbh.first_call) /\ ~ r.warned
           IN [nbh EXCEPT !.mesh = r.mesh,
                          !.first_call = r.first_call,
                          !.pre = IF filters THEN nbh.mesh ELSE @,
                          !.tagged = IF filters THEN r.tagged ELSE @,
                          !.anomax = IF filters THEN anomax ELSE @,
                          !.calls = @ + 1,
                          !.filtered = @ \/ filters,
                          !.warned = r.warned]
     IN nbh' = After(redvse(nbh.mesh, nbh.first_call, anomax))
  /\ OutOfNbh

NextNbh ==
  \/ Define
  \/ \E anomax \in {30, 60} : Redvse(anomax)

SpecNbh == InitNbh /\ [][NextNbh]_vars

(***************************************************************************)
(* SpecConnect: the reversal on every small "ghost cell -> vertices"       *)
(* connectivity, and the builder and the filter on every small mesh.       *)
(***************************************************************************)
InitConnect == InitRev \/ InitNbh

NextConnect ==
  \/ NextRev
  \/ NextNbh

SpecConnect == InitConnect /\ [][NextConnect]_vars

(***************************************************************************)
(* Properties.                                                             *)
(***************************************************************************)
\* The non-null pointers held by the entries of the free-lists.
FreePtrs ==
  UNION { UNION { PtrsOf(free_blocks_[m][i]) : i \in 1..Len(free_blocks_[m]) } :
            m \in cs_alloc_mode_t }

\* The step is a completed call of the given method.
Called(op) == tick' # tick /\ last'.op = op

\* C1: after any sequence of acquire, release, lookup, update and
\* insert_external calls, no pointer is both a key of allocated_blocks and
\* held by an entry of a free-list.
C1_OwnershipExclusive ==
  (DOMAIN allocated_blocks_ \ { nullptr }) \cap FreePtrs = {}

\* C2: in every interleaving of concurrent acquire and release calls, no
\* acquire returns a pointer (host or device) that another acquire returned
\* and that was not released since.
C2_NoAliasing == ~ aliased

\* Two threads hold blocks at the same time, one of them reused from a
\* free-list.
C2_Witness ==
  /\ \E p, q \in Ptr :
       owner[p] # 0 /\ owner[q] # 0 /\ owner[p] # owner[q]
  /\ last.op = "allocate"
  /\ ~ last.fresh

C5_Alignment ==
  last.op = "allocate" =>
    /\ last.blk.size % 64 = 0
    /\ ULe(last.size, last.blk.size)
    /\ ULe(last.blk.size - last.size, 63)

C8_MutexHeld == \A t \in Threads : pc[t] # "idle" => mutex_ = t

\* C9: release(p) of a key p of allocated_blocks removes p from
\* allocated_blocks, appends the block with ttl 0 at the tail of the
\* free-list of its mode, leaves the other free-lists and the physical
\* allocations alone, and the next acquire of that size and mode finds the
\* block in the free-list.
C9_ReleaseRetires ==
  [][ (Called("deallocate") /\ last'.ptr # nullptr
         /\ last'.ptr \in DOMAIN allocated_blocks_)
      => LET p == last'.ptr
             me == allocated_blocks_[p]
         IN /\ p \notin DOMAIN allocated_blocks_'
            /\ free_blocks_'[me.mode] =
                 Append(free_blocks_[me.mode], [me EXCEPT !.ttl = 0])
            /\ \A m \in cs_alloc_mode_t \ { me.mode } :
                 free_blocks_'[m] = free_blocks_[m]
            /\ heap' = heap
            /\ LET list == Scanned(free_blocks_'[me.mode])
               IN /\ FirstMatch(list, me.size) # 0
                  /\ \E i \in 1..Len(list) : PP(list[i]) = PP(me) ]_vars

\* A block reused once has been released again, into a free-list that
\* holds another entry.
C9_Witness ==
  /\ last.op = "deallocate"
  /\ last.found
  /\ Len(free_blocks_[last.blk.mode]) >= 2
  /\ \E m \in cs_alloc_mode_t : \E i \in 1..Len(free_blocks_[m]) :
       free_blocks_[m][i].ttl > 0

\* C10: release(nullptr) changes neither allocated_blocks, nor any
\* free-list, nor the physical allocations.
C10_ReleaseNullNoop ==
  [][ (Called("deallocate") /\ last'.ptr = nullptr)
      => UNCHANGED << allocated_blocks_, free_blocks_, heap >> ]_vars

\* release(nullptr) was called on a pool that tracks a block under the null
\* key and holds a retired block.
C10_Witness ==
  /\ last.op = "deallocate"
  /\ last.ptr = nullptr
  /\ nullptr \in DOMAIN allocated_blocks_
  /\ \E m \in cs_alloc_mode_t : free_blocks_[m] # <<>>

\* What lookup reports for ptr, without its caching.
Reported(ptr) ==
  IF ptr \in DOMAIN allocated_blocks_ THEN allocated_blocks_[ptr]
  ELSE bft_mem_get_block_info_try(ptr)

\* The entry of the free-list of mode m that pointer p designates.
EntryOf(m, p) ==
  free_blocks_[m][CHOOSE i \in 1..Len(free_blocks_[m]) :
                    Handle(free_blocks_[m][i]) = p]

C11_AcquiredTtlZero ==
  last.op = "allocate" =>
    /\ last.blk.ttl = 0
    /\ Handle(last.blk) \in DOMAIN allocated_blocks_
         => allocated_blocks_[Handle(last.blk)].ttl = 0

\* The blocks the pool tracks: entries of allocated_blocks and of the
\* free-lists.
Tracked ==
  { allocated_blocks_[k] : k \in DOMAIN allocated_blocks_ }
    \cup UNION { SeqRange(free_blocks_[m]) : m \in cs_alloc_mode_t }

\* The relation between the pointers of a block that its mode imposes.
PointersFitMode(me) ==
  /\ me.mode = CS_ALLOC_HOST_DEVICE_SHARED
       => me.host_ptr # nullptr /\ me.device_ptr = me.host_ptr
  /\ me.mode = CS_ALLOC_DEVICE
       => me.host_ptr = nullptr /\ me.device_ptr # nullptr

\* C12: a block acquired in HOST_DEVICE_SHARED mode has identical non-null
\* host and device pointers, a block acquired in DEVICE mode a null host
\* pointer and a non-null device pointer, and this stays so while the pool
\* tracks the block.
C12_PointersFitMode ==
  /\ last.op = "allocate"
       => last.blk.mode = last.mode /\ PointersFitMode(last.blk)
  /\ \A me \in Tracked : PointersFitMode(me)

\* A shared block and a device block are tracked, one of them retired.
C12_Witness ==
  /\ \E me \in Tracked : me.mode = CS_ALLOC_HOST_DEVICE_SHARED
  /\ \E me \in Tracked : me.mode = CS_ALLOC_DEVICE
  /\ \E m \in { CS_ALLOC_HOST_DEVICE_SHARED, CS_ALLOC_DEVICE } :
       free_blocks_[m] # <<>>

\* The allocator's bookkeeping knows ptr, as a host or a device pointer.
Known(ptr) ==
  LET me == bft_mem_get_block_info_try(ptr)
  IN me.host_ptr # nullptr \/ me.device_ptr # nullptr

\* C13: lookup(p) returns the entry of allocated_blocks under p when there
\* is one; otherwise, when the bookkeeping knows p, it returns the
\* bookkeeping's block and leaves it in allocated_blocks under p, where the
\* next lookup(p) finds it.
C13_LookupCaches ==
  [][ Called("get_block_info") =>
        LET ptr == last'.ptr
        IN /\ ptr \in DOMAIN allocated_blocks_
                => last'.blk = allocated_blocks_[ptr]
           /\ (ptr \notin DOMAIN allocated_blocks_ /\ Known(ptr))
                => /\ last'.blk = bft_mem_get_block_info_try(ptr)
                   /\ ptr \in DOMAIN allocated_blocks_'
                   /\ allocated_blocks_'[ptr] = last'.blk ]_vars

\* C14: lookup(p) for a pointer that neither allocated_blocks nor the
\* bookkeeping knows returns the block without pointers and changes neither
\* allocated_blocks nor any free-list.
C14_SoftMiss ==
  [][ ( /\ Called("get_block_info")
        /\ last'.ptr \notin DOMAIN allocated_blocks_
        /\ ~ Known(last'.ptr) )
      => /\ last'.blk.host_ptr = nullptr
         /\ last'.blk.device_ptr = nullptr
         /\ UNCHANGED << allocated_blocks_, free_blocks_ >> ]_vars

\* A lookup of a non-null unknown pointer has missed, in a pool that tracks
\* blocks.
C14_Witness ==
  /\ last.op = "get_block_info"
  /\ last.ptr # nullptr
  /\ ~ last.found
  /\ last.blk = me_default
  /\ allocated_blocks_ # EmptyMap

\* C15: promote_to_device on a tracked block of mode HOST_DEVICE or
\* HOST_DEVICE_PINNED leaves under the block's key a block whose device
\* pointer is the newly allocated device buffer and whose host pointer, size
\* and mode are unchanged, and that block is what lookup then reports.
C15_PromoteAttachesMirror ==
  [][ \A ptr \in DOMAIN allocated_blocks_ :
        ( /\ Called("update_block")
          /\ last'.ptr = ptr
          /\ allocated_blocks_[ptr].mode \in
               { CS_ALLOC_HOST_DEVICE, CS_ALLOC_HOST_DEVICE_PINNED } )
        => LET me_old == allocated_blocks_[ptr]
               me_new == Reported(ptr)'
           IN /\ me_new.device_ptr # nullptr
              /\ me_new.device_ptr \notin heap
              /\ heap' = heap \cup { me_new.device_ptr }
              /\ me_new.host_ptr = me_old.host_ptr
              /\ me_new.host_ptr = ptr
              /\ me_new.size = me_old.size
              /\ me_new.mode = me_old.mode
              /\ allocated_blocks_' = Put(allocated_blocks_, ptr, me_new)
     ]_vars

\* A block has been promoted: it is tracked with a device mirror distinct
\* from its host pointer.
C15_Witness ==
  /\ last.op = "update_block"
  /\ last.ptr \in DOMAIN allocated_blocks_
  /\ allocated_blocks_[last.ptr].device_ptr \notin { nullptr, last.ptr }
  /\ allocated_blocks_[last.ptr].host_ptr = last.ptr

\* C16: insert_external(b) leaves b in allocated_blocks under its host
\* pointer; a later release of that pointer finds it there (the bookkeeping
\* is not consulted), removes it and appends b with time-to-live 0 to the
\* free-list of b's mode.
C16_InsertThenRelease ==
  [][ /\ Called("insert_block") =>
           /\ last'.ptr = last'.blk.host_ptr
           /\ last'.ptr \in DOMAIN allocated_blocks_'
           /\ allocated_blocks_'[last'.ptr] = last'.blk
      /\ \A ptr \in legacy \cap DOMAIN allocated_blocks_ :
           (Called("deallocate") /\ last'.ptr = ptr) =>
             LET b == allocated_blocks_[ptr]
             IN /\ b = LegacyBlock(ptr)
                /\ last'.found
                /\ ptr \notin DOMAIN allocated_blocks_'
                /\ free_blocks_' =
                     [free_blocks_ EXCEPT
                        ![b.mode] = Append(@, [b EXCEPT !.ttl = 0])]
                /\ UNCHANGED << heap, bft_map >> ]_vars

\* A block that only insert_external made known to the pool (the pool has
\* allocated nothing and the bookkeeping does not know the pointer) has
\* been released and retired.
C16_Witness ==
  /\ last.op = "deallocate"
  /\ last.found
  /\ DOMAIN shapes.phys = {}
  /\ ~ Known(last.ptr)
  /\ \E i \in 1..Len(free_blocks_[CS_ALLOC_HOST]) :
       free_blocks_[CS_ALLOC_HOST][i] = LegacyBlock(last.ptr)

\* C17: release(p) for a non-null pointer p that is no key of
\* allocated_blocks but that the bookkeeping knows appends the bookkeeping's
\* block for p (it carries p, with its size and mode), with time-to-live 0,
\* to the free-list of that block's mode.
C17_ReleaseRecovers ==
  [][ \A ptr \in Ptr \ DOMAIN allocated_blocks_ :
        (Called("deallocate") /\ last'.ptr = ptr /\ Known(ptr)) =>
          LET me == bft_mem_get_block_info_try(ptr)
          IN /\ ptr \in PtrsOf(me)
             /\ ~ last'.found
             /\ free_blocks_' =
                  [free_blocks_ EXCEPT
                     ![me.mode] = Append(@, [me EXCEPT !.ttl = 0])] ]_vars

\* A pointer that was no key of allocated_blocks has been released and its
\* block, recovered from the bookkeeping, is the tail of a free-list.
C17_Witness ==
  /\ last.op = "deallocate"
  /\ last.ptr # nullptr
  /\ ~ last.found
  /\ Known(last.ptr)
  /\ LET list == free_blocks_[bft_mem_get_block_info_try(last.ptr).mode]
     IN list # <<>> /\ last.ptr \in PtrsOf(list[Len(list)])

\* C18: at process teardown the pool has been destroyed and every block
\* that was in a free-list is physically released.
C18_TeardownReleases ==
  proc.exited =>
    /\ proc.destroyed = proc.built
    /\ heap \cap DestructorFrees = {}

\* C19: under concurrent first calls of instance() the pool is constructed
\* at most once, and a caller that has returned holds the one instance,
\* whose construction is complete.
C19_ConstructedOnce ==
  /\ proc.built <= 1
  /\ \A t \in Threads :
       proc.got[t] # nullptr =>
         /\ proc.flag = "done"
         /\ proc.built = 1
         /\ proc.got[t] = proc.instance
         /\ \A u \in Threads : proc.got[u] \in { nullptr, proc.got[t] }

\* Every thread has returned from its first call, and one of them found
\* the initializer running when it arrived.
C19_Witness ==
  /\ \A t \in Threads : proc.got[t] # nullptr
  /\ proc.waited # {}

\* The ghost cell id lists the vertex vtx_id in the forward connectivity.
Forward(id, vtx_id) ==
  \E j \in nbh.gcell_vtx_idx[id]..(nbh.gcell_vtx_idx[id + 1] - 1) :
    nbh.gcell_vtx_lst[j] - 1 = vtx_id

\* The positions of the row of vtx_id in vtx_gcells_lst.
RowOf(vtx_id) ==
  nbh.vtx_gcells_idx[vtx_id]..(nbh.vtx_gcells_idx[vtx_id + 1] - 1)

\* C20: after the reversal of a "ghost cell -> vertices" connectivity, every
\* (ghost cell, vertex) pair of the forward connectivity stands exactly once
\* in the row of the vertex, also when the ghost cell lists the vertex
\* several times, and no pair absent from the forward connectivity stands in
\* any row: the rows cover the whole list and every element was written.
C20_ReversalExact ==
  nbh.phase = "lst" =>
    /\ nbh.vtx_gcells_idx[0] = 0
    /\ nbh.vtx_gcells_idx[nbh.n_vertices] =
         Cardinality(DOMAIN nbh.vtx_gcells_lst)
    /\ \A k \in DOMAIN nbh.vtx_gcells_lst : nbh.vtx_gcells_lst[k] # Unset
    /\ \A vtx_id \in 0..(nbh.n_vertices - 1) :
         /\ nbh.vtx_gcells_idx[vtx_id] <= nbh.vtx_gcells_idx[vtx_id + 1]
         /\ \A k \in RowOf(vtx_id) :
              /\ nbh.vtx_gcells_lst[k] \in 0..(nbh.halo.n_elts_extended - 1)
              /\ Forward(nbh.vtx_gcells_lst[k], vtx_id)
         /\ \A id \in 0..(nbh.halo.n_elts_extended - 1) :
              Forward(id, vtx_id) =>
                Cardinality({ k \in RowOf(vtx_id) :
                                nbh.vtx_gcells_lst[k] = id }) = 1

\* The reversal is done for a connectivity in which one ghost cell lists a
\* vertex twice with another vertex in between, and a second ghost cell
\* lists the same vertex.
C20_Witness ==
  /\ nbh.phase = "lst"
  /\ nbh.halo.n_elts_extended = 2
  /\ \E j \in DOMAIN nbh.gcell_vtx_lst :
       /\ j + 2 < nbh.gcell_vtx_idx[1]
       /\ nbh.gcell_vtx_idx[0] <= j
       /\ nbh.gcell_vtx_lst[j] = nbh.gcell_vtx_lst[j + 2]
       /\ nbh.gcell_vtx_lst[j] # nbh.gcell_vtx_lst[j + 1]
       /\ Forward(1, nbh.gcell_vtx_lst[j] - 1)
       /\ Cardinality(RowOf(nbh.gcell_vtx_lst[j] - 1)) = 2

\* The cell cell_num has the vertex vtx_num: it is a vertex of one of its
\* internal faces or, for a ghost cell, one that the cell lists.
Touches(cell_num, vtx_num) ==
  \/ \E f \in 0..(nbh.mesh.n_i_faces - 1) :
       /\ cell_num \in { nbh.mesh.i_face_cells[2 * f],
                         nbh.mesh.i_face_cells[2 * f + 1] }
       /\ \E k \in (nbh.mesh.i_face_vtx_idx[f] - 1)..
                   (nbh.mesh.i_face_vtx_idx[f + 1] - 2) :
            nbh.mesh.i_face_vtx_lst[k] = vtx_num
  \/ /\ cell_num > nbh.mesh.n_cells
     /\ \E k \in nbh.gcell_vtx.idx[cell_num - nbh.mesh.n_cells - 1]..
                 (nbh.gcell_vtx.idx[cell_num - nbh.mesh.n_cells] - 1) :
          nbh.gcell_vtx.lst[k] = vtx_num

\* The face f is a face of the cell cell_num and has a vertex of the cell
\* ext_cell_num.
Joins(f, cell_num, ext_cell_num) ==
  /\ cell_num \in { nbh.mesh.i_face_cells[2 * f],
                    nbh.mesh.i_face_cells[2 * f + 1] }
  /\ \E k \in (nbh.mesh.i_face_vtx_idx[f] - 1)..
              (nbh.mesh.i_face_vtx_idx[f + 1] - 2) :
       Touches(ext_cell_num, nbh.mesh.i_face_vtx_lst[k])

\* The entries of the row of the local cell cell_num in cell -> cells.
Ext(cell_cells, cell_num) ==
  { cell_cells.lst[k] :
      k \in (cell_cells.idx[cell_num - 1] - 1)..(cell_cells.idx[cell_num] - 2) }

\* C21: after the filter, every entry kept in the row of a cell I is a cell
\* that has a vertex of an internal face of I whose cosine is at or below the
\* threshold cosine.
C21_RetainedAdmitted ==
  nbh.filtered =>
    \A cell_num \in 1..nbh.mesh.n_cells :
      \A ext_cell_num \in Ext(nbh.mesh.cell_cells, cell_num) :
        \E f \in 0..(nbh.mesh.n_i_faces - 1) :
          /\ Joins(f, cell_num, ext_cell_num)
          /\ nbh.mesh.cos_ij_fn[f] <= Cos1000[nbh.anomax]

\* The filter has kept an entry in one row and deleted an entry of another
\* row, in a mesh that has a face above the threshold.
C21_Witness ==
  /\ nbh.filtered
  /\ \E cell_num \in 1..nbh.mesh.n_cells :
       Ext(nbh.mesh.cell_cells, cell_num) # {}
  /\ \E cell_num \in 1..nbh.mesh.n_cells :
       Ext(nbh.pre.cell_cells, cell_num) # Ext(nbh.mesh.cell_cells, cell_num)
  /\ \E f \in 0..(nbh.mesh.n_i_faces - 1) :
       nbh.mesh.cos_ij_fn[f] > Cos1000[nbh.anomax]

\* C22: after the compaction, each row of cell -> cells is the sequence of
\* the entries of that row that the tagging confirmed, in their order and
\* with a positive sign; its length is the number of confirmed entries.
C22_CompactionExact ==
  nbh.filtered =>
    \A cell_id \in 0..(nbh.mesh.n_cells - 1) :
      LET confirmed ==
            For(nbh.pre.cell_cells.idx[cell_id] - 1,
                nbh.pre.cell_cells.idx[cell_id + 1] - 1,
                LAMBDA q, i : IF nbh.tagged[i] < 0
                                THEN Append(q, nbh.pre.cell_cells.lst[i])
                                ELSE q,
                << >>)
          first == nbh.mesh.cell_cells.idx[cell_id] - 1
      IN /\ nbh.mesh.cell_cells.idx[cell_id + 1]
              - nbh.mesh.cell_cells.idx[cell_id] = Len(confirmed)
         /\ \A k \in 1..Len(confirmed) :
              /\ nbh.mesh.cell_cells.lst[first + k - 1] = confirmed[k]
              /\ confirmed[k] > 0

\* The filter has deleted one of the two entries of a row, and a later row
\* has kept an entry.
C22_Witness ==
  /\ nbh.filtered
  /\ \E cell_id \in 0..(nbh.mesh.n_cells - 1) :
       /\ nbh.pre.cell_cells.idx[cell_id + 1]
            - nbh.pre.cell_cells.idx[cell_id] = 2
       /\ nbh.mesh.cell_cells.idx[cell_id + 1]
            - nbh.mesh.cell_cells.idx[cell_id] = 1
       /\ \E later \in (cell_id + 1)..(nbh.mesh.n_cells - 1) :
            nbh.mesh.cell_cells.idx[later + 1] > nbh.mesh.cell_cells.idx[later]

\* C23: every adjacency the builder makes (cell -> internal faces, vertex ->
\* cells, vertex -> ghost cells, cell -> cells), the vertex -> cells
\* adjacency of the filter, and cell -> cells after the filter, have an
\* index of n + 1 elements that starts at its base and never decreases, and
\* a list of index[n] - base elements, each of them written: row i is the
\* slots from index[i] up to index[i + 1] excluded.
C23_WellFormed ==
  LET WellFormed(adj, n, base) ==
        /\ DOMAIN adj.idx = 0..n
        /\ adj.idx[0] = base
        /\ \A i \in 0..(n - 1) : adj.idx[i] <= adj.idx[i + 1]
        /\ DOMAIN adj.lst = 0..(adj.idx[n] - base - 1)
        /\ \A k \in DOMAIN adj.lst : adj.lst[k] # Unset
      mesh == nbh.mesh
  IN /\ nbh.phase = "defined" =>
          /\ WellFormed(nbh.built.cell_i_faces, mesh.n_cells, 1)
          /\ WellFormed(nbh.built.vtx_cells, mesh.n_vertices, 0)
          /\ mesh.n_cells_with_ghosts > mesh.n_cells =>
               WellFormed(nbh.built.vtx_gcells, mesh.n_vertices, 0)
          /\ WellFormed(nbh.built.cell_cells, mesh.n_cells, 1)
          /\ WellFormed(mesh.cell_cells, mesh.n_cells, 1)
     /\ nbh.filtered =>
          WellFormed(create_vtx_cells_connect(mesh), mesh.n_vertices, 1)

\* The filter has deleted entries of an adjacency that the builder made for
\* a mesh with a ghost cell, and every adjacency has an entry.
C23_Witness ==
  /\ nbh.filtered
  /\ nbh.mesh.cell_cells.lst # nbh.pre.cell_cells.lst
  /\ nbh.mesh.cell_cells.lst # << >>
  /\ nbh.built.vtx_gcells.lst # << >>
  /\ nbh.built.cell_i_faces.lst # << >>

\* C24: the adjacency the filter leaves is the one the tagging and the
\* compaction give for every order in which the internal faces are visited.
C24_OrderInvariant ==
  nbh.filtered =>
    \A order \in [1..nbh.pre.n_i_faces -> 0..(nbh.pre.n_i_faces - 1)] :
      (\A a, b \in DOMAIN order : a # b => order[a] # order[b]) =>
        Compacted([idx |-> nbh.pre.cell_cells.idx,
                   lst |-> TagFaces(nbh.pre, order, Cos1000[nbh.anomax],
                                    create_vtx_cells_connect(nbh.pre))],
                  nbh.pre.n_cells) = nbh.mesh.cell_cells

\* The filter has visited two faces at or below the threshold, each of which
\* confirms an entry that the other one does not, and has kept both.
C24_Witness ==
  /\ nbh.filtered
  /\ nbh.pre.n_i_faces = 2
  /\ \A f \in {0, 1} : nbh.pre.cos_ij_fn[f] <= Cos1000[nbh.anomax]
  /\ \E cell_a, cell_b \in 1..nbh.mesh.n_cells :
       \E ext_a \in Ext(nbh.mesh.cell_cells, cell_a),
          ext_b \in Ext(nbh.mesh.cell_cells, cell_b) :
         /\ Joins(0, cell_a, ext_a) /\ ~ Joins(1, cell_a, ext_a)
         /\ Joins(1, cell_b, ext_b) /\ ~ Joins(0, cell_b, ext_b)

\* C25: a call of redvse that is not the first one leaves the index and the
\* list of cell -> cells as they are, the first call having filtered or only
\* warned.
C25_OneShot ==
  [][(nbh.calls >= 1 /\ nbh'.calls = nbh.calls + 1)
       => nbh'.mesh.cell_cells = nbh.mesh.cell_cells]_vars

\* The second call has come after a first call that only warned, before the
\* builder had run, and the adjacency built since then has a face that the
\* threshold of a first call would have used to delete an entry.
C25_Witness ==
  /\ nbh.calls = 2
  /\ nbh.phase = "defined"
  /\ ~ nbh.filtered
  /\ nbh.mesh.halo_type = "CS_HALO_EXTENDED"
  /\ nbh.mesh.cell_cells.lst # << >>
  /\ \E f \in 0..(nbh.mesh.n_i_faces - 1) : nbh.mesh.cos_ij_fn[f] > Cos1000[30]

\* C26, as stated: a face is in the row of one of its cells only if the cell
\* on its other side is a local cell.
C26_OpposingLocal ==
  nbh.phase = "defined" =>
    \A cell_num \in 1..nbh.mesh.n_cells :
      \A face_num \in Ext(nbh.built.cell_i_faces, cell_num) :
        LET f == CS_ABS(face_num) - 1
        IN \A side \in {0, 1} :
             nbh.mesh.i_face_cells[2 * f + side] <= nbh.mesh.n_cells

\* C26, amended: a face is in the row of one of its cells if and only if that
\* cell itself is a local cell, whatever the cell on its other side is: the
\* row of a local cell is each face of the cell once, and no ghost cell has a
\* row.
C26_ListedIffLocal ==
  nbh.phase = "defined" =>
    /\ DOMAIN nbh.built.cell_i_faces.idx = 0..nbh.mesh.n_cells
    /\ \A cell_num \in 1..nbh.mesh.n_cells :
         LET faces == { f \in 0..(nbh.mesh.n_i_faces - 1) :
                          cell_num \in { nbh.mesh.i_face_cells[2 * f],
                                         nbh.mesh.i_face_cells[2 * f + 1] } }
             row == Ext(nbh.built.cell_i_faces, cell_num)
         IN /\ { CS_ABS(face_num) - 1 : face_num \in row } = faces
            /\ nbh.built.cell_i_faces.idx[cell_num]
                 - nbh.built.cell_i_faces.idx[cell_num - 1] = Cardinality(faces)

\* The builder has listed a face in the row of a local cell whose cell on the
\* other side is a ghost cell.
C26_Witness ==
  /\ nbh.phase = "defined"
  /\ \E cell_num \in 1..nbh.mesh.n_cells :
       \E face_num \in Ext(nbh.built.cell_i_faces, cell_num) :
         \E side \in {0, 1} :
           nbh.mesh.i_face_cells[2 * (CS_ABS(face_num) - 1) + side]
             > nbh.mesh.n_cells

\* C27: the row of a local cell I in the adjacency that the builder makes is
\* each cell, local or ghost, once, that has a vertex of an internal face
\* of I and is neither I nor a cell on the other side of an internal face
\* of I.  A local cell has the vertices of its internal faces, a ghost cell
\* those that it lists.
C27_ExtendedRow ==
  nbh.phase = "defined" =>
    \A cell_num \in 1..nbh.mesh.n_cells :
      LET FaceOf(f, c) == c \in { nbh.mesh.i_face_cells[2 * f],
                                  nbh.mesh.i_face_cells[2 * f + 1] }
          faces == 0..(nbh.mesh.n_i_faces - 1)
          expected ==
            { c \in 1..nbh.mesh.n_cells_with_ghosts :
                /\ c # cell_num
                /\ ~ \E f \in faces : FaceOf(f, cell_num) /\ FaceOf(f, c)
                /\ \E f \in faces : Joins(f, cell_num, c) }
      IN /\ Ext(nbh.built.cell_cells, cell_num) = expected
         /\ nbh.built.cell_cells.idx[cell_num]
              - nbh.built.cell_cells.idx[cell_num - 1] = Cardinality(expected)

\* The builder has given a cell a row of a local cell and a ghost cell, both
\* met at two vertices of a face, and has left a face neighbour that has
\* these vertices out of the row.
C27_Witness ==
  /\ nbh.phase = "defined"
  /\ \E cell_num \in 1..nbh.mesh.n_cells :
       /\ \E c \in Ext(nbh.built.cell_cells, cell_num) : c <= nbh.mesh.n_cells
       /\ \E c \in Ext(nbh.built.cell_cells, cell_num) : c > nbh.mesh.n_cells
       /\ \E f \in 0..(nbh.mesh.n_i_faces - 1) :
            /\ nbh.mesh.i_face_vtx_idx[f + 1] - nbh.mesh.i_face_vtx_idx[f] = 2
            /\ \A c \in Ext(nbh.built.cell_cells, cell_num) :
                 /\ Joins(f, cell_num, c)
                 /\ Touches(c, 1) /\ Touches(c, 2)

\* C28: the builder gives a mesh without internal faces an adjacency whose
\* rows are all empty; before and after the filter, a cell that has no
\* extended neighbour (none to list, or none that the filter confirmed) has
\* two equal index entries and no slot of the list, and every element of
\* the list is the number of a cell.
C28_EmptyRows ==
  nbh.phase = "defined" =>
    LET mesh == nbh.mesh
        NoSentinel(adj) ==
          /\ DOMAIN adj.lst = 0..(adj.idx[mesh.n_cells] - 2)
          /\ \A k \in DOMAIN adj.lst :
               adj.lst[k] \in 1..mesh.n_cells_with_ghosts
        Empty(adj, cell_num) == adj.idx[cell_num] = adj.idx[cell_num - 1]
    IN /\ mesh.n_i_faces = 0 =>
            /\ \A cell_num \in 1..mesh.n_cells :
                 Empty(nbh.built.cell_cells, cell_num)
                   /\ Empty(mesh.cell_cells, cell_num)
            /\ nbh.built.cell_cells.idx[0] = 1
            /\ mesh.cell_cells.lst = << >>
       /\ NoSentinel(nbh.built.cell_cells)
       /\ NoSentinel(mesh.cell_cells)
       /\ \A cell_num \in 1..mesh.n_cells :
            /\ (\A c \in 1..mesh.n_cells_with_ghosts, f \in 0..(mesh.n_i_faces - 1) :
                  Joins(f, cell_num, c) =>
                    \/ c = cell_num
                    \/ \E g \in 0..(mesh.n_i_faces - 1) :
                         {c, cell_num} = { mesh.i_face_cells[2 * g],
                                           mesh.i_face_cells[2 * g + 1] })
                 => Empty(nbh.built.cell_cells, cell_num)
            /\ (/\ nbh.filtered
                /\ \A i \in (nbh.pre.cell_cells.idx[cell_num - 1] - 1)..
                            (nbh.pre.cell_cells.idx[cell_num] - 2) :
                     nbh.tagged[i] > 0)
                 => Empty(mesh.cell_cells, cell_num)

\* The builder has run on a mesh of several cells and no internal face, and
\* redvse has been called on its result.
C28_Witness ==
  /\ nbh.phase = "defined"
  /\ nbh.mesh.n_i_faces = 0
  /\ nbh.mesh.n_cells > 1
  /\ nbh.mesh.halo_type = "CS_HALO_EXTENDED"
  /\ nbh.calls = 1
  /\ nbh.built # << >>

\* C29: a face confirms for its two cells if and only if its cosine is at or
\* below the threshold cosine: each local cell of a face at or below the
\* threshold keeps every entry of its row that has a vertex of the face, and
\* an entry that is kept has a vertex of such a face of the cell, so that a
\* face above the threshold keeps none by itself.
C29_FaceConfirms ==
  nbh.filtered =>
    \A cell_num \in 1..nbh.mesh.n_cells :
      /\ \A f \in 0..(nbh.mesh.n_i_faces - 1) :
           \A ext_cell_num \in Ext(nbh.pre.cell_cells, cell_num) :
             (Joins(f, cell_num, ext_cell_num)
                /\ nbh.mesh.cos_ij_fn[f] <= Cos1000[nbh.anomax])
               => ext_cell_num \in Ext(nbh.mesh.cell_cells, cell_num)
      /\ \A ext_cell_num \in Ext(nbh.mesh.cell_cells, cell_num) :
           \E f \in 0..(nbh.mesh.n_i_faces - 1) :
             /\ Joins(f, cell_num, ext_cell_num)
             /\ nbh.mesh.cos_ij_fn[f] <= Cos1000[nbh.anomax]

\* C30: when acquire(s, m) returns a block that it did not allocate, the
\* block is the first entry, among those that the scan left in the free-list
\* of mode m, whose size is the rounded request: no entry before it has that
\* size and none after it was retired earlier (has waited through more
\* scans), it is of mode m, the list loses that entry alone and keeps the
\* others in their order, and the free-lists of the other modes lose nothing.
C30_ExactFit ==
  [][ (Called("allocate") /\ last'.found) =>
        LET mode == last'.mode
            left == Scanned(free_blocks_[mode])
        IN /\ \E i \in 1..Len(left) :
                /\ left[i] = last'.blk
                /\ left[i].size = AdjustedSize(last'.size)
                /\ \A j \in 1..(i - 1) :
                     left[j].size # AdjustedSize(last'.size)
                /\ \A j \in (i + 1)..Len(left) :
                     left[j].size = AdjustedSize(last'.size)
                       => left[j].ttl <= left[i].ttl
                /\ free_blocks_'[mode] =
                     [k \in 1..(Len(left) - 1) |->
                        IF k < i THEN left[k] ELSE left[k + 1]]
           /\ last'.blk.mode = mode
           /\ \A other \in cs_alloc_mode_t \ {mode} :
                free_blocks_'[other] = free_blocks_[other] ]_vars

\* acquire has taken a block from a free-list in which a larger block came
\* before it and another block of the rounded size after it.
C30_Witness ==
  /\ last.op = "allocate"
  /\ last.found
  /\ \E i, j \in 1..Len(free_blocks_[last.mode]) :
       /\ i < j
       /\ free_blocks_[last.mode][i].size > last.blk.size
       /\ free_blocks_[last.mode][j].size = last.blk.size

\* C31: within one acquire(s, m) the eviction comes before the matching.
\* Every entry of the free-list of m is aged by exactly one, match or no
\* match; the entries whose counter reaches TTL_MAX are released (their
\* addresses are free, or are those of the block this call allocates) and
\* removed; the entries that stay keep their order; the block returned is
\* newly allocated or is one of the entries that stay, and it is newly
\* allocated when only evicted entries have the rounded size.
C31_EvictionFirst ==
  [][ Called("allocate") =>
        LET old == free_blocks_[last'.mode]
            new == free_blocks_'[last'.mode]
            once == [i \in 1..Len(old) |-> [old[i] EXCEPT !.ttl = @ + 1]]
            Reaches(me) == me.ttl >= TTL_MAX
            Stays(me) == me.ttl < TTL_MAX
            gone == SelectSeq(once, Reaches)
            kept == SelectSeq(once, Stays)
            reused == IF last'.fresh THEN PtrsOf(last'.blk) ELSE {}
        IN /\ IF last'.fresh
                THEN new = kept
                ELSE \E i \in 1..Len(kept) :
                       /\ kept[i] = last'.blk
                       /\ new = RemoveAt(kept, i)
           /\ \A i \in 1..Len(gone) :
                /\ PtrsOf(gone[i]) \cap heap' \subseteq reused
                /\ \A j \in 1..Len(new) : PtrsOf(new[j]) # PtrsOf(gone[i])
           /\ (\A i \in 1..Len(kept) :
                 kept[i].size # AdjustedSize(last'.size)) => last'.fresh ]_vars

\* An acquire evicted an entry of the rounded size it asked for, while
\* another entry of its free-list stayed.
C31_Witness ==
  /\ last.op = "allocate"
  /\ \E i \in 1..Len(last.evicted) :
       last.evicted[i].size = AdjustedSize(last.size)
  /\ free_blocks_[last.mode] # <<>>

\* C32: acquire(s, m) leaves the free-list of every mode other than m as it
\* is (entries, order, counters) and returns a block of mode m.
C32_OtherModesUntouched ==
  [][ Called("allocate") =>
        /\ \A other \in cs_alloc_mode_t \ { last'.mode } :
             free_blocks_'[other] = free_blocks_[other]
        /\ last'.blk.mode = last'.mode ]_vars

\* An acquire reused a block of its mode while the free-list of another
\* mode held a block of the rounded size.
C32_Witness ==
  /\ last.op = "allocate"
  /\ last.found
  /\ \E other \in cs_alloc_mode_t \ { last.mode } :
       \E i \in 1..Len(free_blocks_[other]) :
         free_blocks_[other][i].size = last.blk.size

\* C33: between the calls, every free-list has counters that do not increase
\* from front to back and lie in 0..TTL_MAX - 1, and it is in retirement
\* order: a release appends at the tail, and no call changes the relative
\* order of the entries that stay.
C33_RetirementOrder ==
  [][ \A m \in cs_alloc_mode_t :
        LET old == free_blocks_[m]
            new == free_blocks_'[m]
            Same(a, b) == [a EXCEPT !.ttl = 0] = [b EXCEPT !.ttl = 0]
        IN /\ \A i \in 1..Len(new) :
                /\ new[i].ttl \in 0..(TTL_MAX - 1)
                /\ \A j \in (i + 1)..Len(new) : new[i].ttl >= new[j].ttl
           /\ \/ /\ Len(new) = Len(old) + 1
                 /\ \A i \in 1..Len(old) : new[i] = old[i]
                 /\ new[Len(new)].ttl = 0
                 /\ Called("deallocate")
              \/ /\ Len(new) <= Len(old)
                 /\ \E f \in [1..Len(new) -> 1..Len(old)] :
                      /\ \A i \in 1..Len(new) : Same(new[i], old[f[i]])
                      /\ \A i \in 1..Len(new) :
                           \A j \in (i + 1)..Len(new) : f[i] < f[j] ]_vars

\* A free-list holds a block one scan away from its eviction at the front,
\* and a block retired later behind it.
C33_Witness ==
  \E m \in cs_alloc_mode_t :
    /\ Len(free_blocks_[m]) >= 2
    /\ free_blocks_[m][1].ttl = TTL_MAX - 1
    /\ free_blocks_[m][2].ttl < TTL_MAX - 1

\* C34: every block returned by acquire and not released since has its own
\* entry in allocated_blocks, whatever its mode: each pointer checked out is
\* a pointer of an entry, and there are as many entries as blocks checked
\* out.
C34_OwnEntry ==
  LET out == { p \in Ptr : owner[p] # 0 }
  IN /\ \A p \in out :
          \E k \in DOMAIN allocated_blocks_ : p \in PtrsOf(allocated_blocks_[k])
     /\ last.op = "allocate"
          => Cardinality(DOMAIN allocated_blocks_) = Cardinality(out)

\* C35: over any sequence of calls, a second release of a pointer included,
\* no pointer is held by more than one entry of the free-lists (so that no
\* buffer is passed to the backend's free twice).
C35_ReleasedOnce ==
  \A m1, m2 \in cs_alloc_mode_t :
    \A i \in 1..Len(free_blocks_[m1]) :
      \A j \in 1..Len(free_blocks_[m2]) :
        << m1, i >> # << m2, j >>
          => PtrsOf(free_blocks_[m1][i]) \cap PtrsOf(free_blocks_[m2][j]) = {}

\* C36: no free-list ever holds an entry whose host pointer and device
\* pointer are both null.
C36_NoNullEntry ==
  \A m \in cs_alloc_mode_t :
    \A i \in 1..Len(free_blocks_[m]) :
      \/ free_blocks_[m][i].host_ptr # nullptr
      \/ free_blocks_[m][i].device_ptr # nullptr

\* C37: in the adjacency cell -> internal faces, the row of a local cell c
\* holds the number f + 1 of each face f whose first cell is c once, the
\* number -(f + 1) of each face whose second cell is c once, and nothing
\* else; a ghost cell has no row; the faces of a row are in increasing
\* order; and every slot of the list has been written, each by a different
\* write of the second pass.
C37_SignedRows ==
  nbh.phase = "defined" =>
    LET mesh == nbh.mesh
        idx == nbh.built.cell_i_faces.idx
        lst == nbh.built.cell_i_faces.lst
        faces == 0..(mesh.n_i_faces - 1)
        Row(c) == [k \in 1..(idx[c] - idx[c - 1]) |-> lst[idx[c - 1] + k - 2]]
        Count(c, v) == Cardinality({ k \in DOMAIN Row(c) : Row(c)[k] = v })
        sides == { fs \in faces \X {0, 1} :
                     mesh.i_face_cells[2 * fs[1] + fs[2]] <= mesh.n_cells }
    IN /\ DOMAIN idx = 0..mesh.n_cells
       /\ DOMAIN lst = 0..(Cardinality(sides) - 1)
       /\ \A c \in 1..mesh.n_cells :
            /\ \A f \in faces :
                 /\ Count(c, f + 1)
                      = IF mesh.i_face_cells[2 * f] = c THEN 1 ELSE 0
                 /\ Count(c, 0 - (f + 1))
                      = IF mesh.i_face_cells[2 * f + 1] = c THEN 1 ELSE 0
            /\ \A k \in DOMAIN Row(c) :
                 /\ CS_ABS(Row(c)[k]) - 1 \in faces
                 /\ \A l \in DOMAIN Row(c) :
                      k < l => CS_ABS(Row(c)[k]) < CS_ABS(Row(c)[l])
       /\ \A j \in DOMAIN lst :
            /\ lst[j] # Unset
            /\ \A k \in DOMAIN lst : k # j => lst[k] # lst[j]

\* The builder has given a local cell a row with a face of which it is the
\* first cell and a face of which it is the second cell, and a face of the
\* mesh has a ghost cell.
C37_Witness ==
  /\ nbh.phase = "defined"
  /\ \E c \in 1..nbh.mesh.n_cells :
       \E f, g \in Ext(nbh.built.cell_i_faces, c) : f > 0 /\ g < 0
  /\ \E k \in DOMAIN nbh.mesh.i_face_cells :
       nbh.mesh.i_face_cells[k] > nbh.mesh.n_cells

\* C38: in the tagging phase of the filter, each call of _tag_cells, for a
\* face at or below the threshold and one of its two cells, changes an
\* entry of the list cell -> cells only from positive to negative, and only
\* in the row of that cell: a negative entry stays as it is through all the
\* later calls, and no entry ever changes its absolute value.  The list
\* after the last face is the one the filter compacts.
C38_MonotoneTagging ==
  nbh.filtered =>
    LET mesh == nbh.pre
        idx == mesh.cell_cells.idx
        vtx_cells == create_vtx_cells_connect(mesh)
        Upto(n) == TagFaces(mesh, [k \in 1..n |-> k - 1], Cos1000[nbh.anomax],
                            vtx_cells)
        InRow(i, cell_id) ==
          /\ cell_id < mesh.n_cells
          /\ idx[cell_id] - 1 <= i
          /\ i < idx[cell_id + 1] - 1
        Monotone(before, after, cell_id) ==
          /\ DOMAIN after = DOMAIN before
          /\ \A i \in DOMAIN before :
               /\ CS_ABS(after[i]) = CS_ABS(before[i])
               /\ before[i] < 0 => after[i] = before[i]
               /\ after[i] # before[i] =>
                    before[i] > 0 /\ after[i] < 0 /\ InRow(i, cell_id)
    IN /\ Upto(0) = mesh.cell_cells.lst
       /\ Upto(mesh.n_i_faces) = nbh.tagged
       /\ \A face_id \in 0..(mesh.n_i_faces - 1) :
            LET cell_i == mesh.i_face_cells[2 * face_id] - 1
                cell_j == mesh.i_face_cells[2 * face_id + 1] - 1
                before == Upto(face_id)
                mid == tag_cells(face_id, cell_i, mesh, vtx_cells, before)
                after == tag_cells(face_id, cell_j, mesh, vtx_cells, mid)
            IN IF mesh.cos_ij_fn[face_id] <= Cos1000[nbh.anomax]
                 THEN /\ Monotone(before, mid, cell_i)
                      /\ Monotone(mid, after, cell_j)
                      /\ Upto(face_id + 1) = after
                 ELSE Upto(face_id + 1) = before

\* The filter has confirmed an entry at its first face and, at its second
\* face, another entry in the row of another cell, while a third entry has
\* stayed unconfirmed.
C38_Witness ==
  /\ nbh.filtered
  /\ nbh.pre.n_i_faces = 2
  /\ LET first == TagFaces(nbh.pre, << 0 >>, Cos1000[nbh.anomax],
                           create_vtx_cells_connect(nbh.pre))
     IN /\ \E i \in DOMAIN first : first[i] < 0
        /\ \E i \in DOMAIN first : first[i] > 0 /\ nbh.tagged[i] < 0
        /\ \E i \in DOMAIN first : nbh.tagged[i] > 0

\* C39: in vertex -> ghost cells and in vertex -> local cells, the row of a
\* vertex lists its cells in strictly increasing order, and the list pass
\* writes as many entries into the row as the index pass has counted for it:
\* the counter of the vertex ends at the row length, and the row is each
\* cell that has the vertex, once, with no slot left unwritten.
C39_RowsIncreasing ==
  LET Row(adj, v) ==
        [k \in 1..(adj.idx[v + 1] - adj.idx[v]) |-> adj.lst[adj.idx[v] + k - 1]]
      Increasing(row) ==
        \A k, l \in DOMAIN row : k < l => row[k] < row[l]
      Members(row) == { row[k] : k \in DOMAIN row }
  IN /\ nbh.phase = "lst" =>
          LET adj == [idx |-> nbh.vtx_gcells_idx, lst |-> nbh.vtx_gcells_lst]
          IN \A v \in 0..(nbh.n_vertices - 1) :
               /\ Increasing(Row(adj, v))
               /\ nbh.counter[v] = Len(Row(adj, v))
               /\ Members(Row(adj, v)) =
                    { id \in 0..(nbh.halo.n_elts_extended - 1) : Forward(id, v) }
     /\ nbh.phase = "defined" =>
          LET mesh == nbh.mesh
              n_ghosts == mesh.n_cells_with_ghosts - mesh.n_cells
          IN \A v \in 0..(mesh.n_vertices - 1) :
               /\ Increasing(Row(nbh.built.vtx_cells, v))
               /\ Members(Row(nbh.built.vtx_cells, v)) =
                    { c \in 0..(mesh.n_cells - 1) : Touches(c + 1, v + 1) }
               /\ n_ghosts > 0 =>
                    /\ Increasing(Row(nbh.built.vtx_gcells, v))
                    /\ reverse_connectivity_lst(
                         mesh.halo, mesh.n_vertices, 0 - 1, nbh.gcell_vtx.idx,
                         nbh.gcell_vtx.lst, nbh.built.vtx_gcells.idx).counter[v]
                         = Len(Row(nbh.built.vtx_gcells, v))
                    /\ Members(Row(nbh.built.vtx_gcells, v)) =
                         { g \in 0..(n_ghosts - 1) :
                             Touches(mesh.n_cells + g + 1, v + 1) }

\* The reversal has given a vertex a row of two ghost cells, the first of
\* which lists the vertex twice.
C39_Witness ==
  /\ nbh.phase = "lst"
  /\ \E v \in 0..(nbh.n_vertices - 1) :
       /\ nbh.counter[v] = 2
       /\ \E j, k \in nbh.gcell_vtx_idx[0]..(nbh.gcell_vtx_idx[1] - 1) :
            /\ j # k
            /\ nbh.gcell_vtx_lst[j] = v + 1
            /\ nbh.gcell_vtx_lst[k] = v + 1

====
